---- MODULE Spec2Model ----
(***************************************************************************)
(* GameBass: access control, team membership, tournament dates and user    *)
(* creation, modelled from the Flask routes, the service layer and the     *)
(* SQLAlchemy models.                                                      *)
(*                                                                         *)
(* Conventions                                                             *)
(*   - Python None is the integer None (-1); every other integer of the    *)
(*     model is non-negative.                                              *)
(*   - Text (aliases, e-mails, names, form fields) is a tuple of one       *)
(*     character strings, so len() and the "in" test are computed.         *)
(*   - `last` records the most recent call: its arguments and its outcome. *)
(***************************************************************************)
EXTENDS Integers, Sequences, FiniteSets, TLC

VARIABLES current_user, usuarios, jerarquias, protocolos, equipos, equipo,
          torneos, pend, seq, last, avatars, now, config

vars == <<current_user, usuarios, jerarquias, protocolos, equipos, equipo,
          torneos, pend, seq, last, avatars, now, config>>

None == -1

\* None where a string or a text is expected
NoneStr == "None"

NoneTxt == <<"None">>

Range(s) == {s[i] : i \in 1..Len(s)}

Max(S) == CHOOSE x \in S : \A y \in S : y <= x

(***************************************************************************)
(* Permissions: the five standard access levels.                           *)
(***************************************************************************)
PARTICIPANTE == 0

MOD_TACTICO == 40

MOD_ARENA == 60

MOD_SISTEMA == 80

ADMIN == 100

Tiers == {PARTICIPANTE, MOD_TACTICO, MOD_ARENA, MOD_SISTEMA, ADMIN}

\* Profiles.ROOT, the allow-list of the protocolos routes.
ProfilesROOT == {ADMIN}

\* The database enforces the declared foreign keys.
ForeignKeysEnforced == TRUE

(***************************************************************************)
(* Text values used by the model.                                          *)
(***************************************************************************)
Txt0 == <<>>

TxtAb == <<"a", "b">>

TxtAce == <<"A", "c", "e">>

TxtNeo == <<"N", "e", "o">>

TxtRoot == <<"r", "o", "o", "t">>

MailAce == <<"a", "@", "x">>

MailNeo == <<"n", "@", "x">>

MailRoot == <<"r", "@", "x">>

MailBad == <<"a", "x">>

\* "@" in email_usuario
HasAt(email) == "@" \in Range(email)

(***************************************************************************)
(* werkzeug password hashing: the stored value is a salted digest, never   *)
(* the plaintext; check_password_hash recomputes it.                       *)
(***************************************************************************)
generate_password_hash(password) == <<"scrypt">> \o password

IsHash(v) == Len(v) >= 1 /\ v[1] = "scrypt"

check_password_hash_any(stored, password) == IsHash(stored)

check_password_hash(stored, password) == IsHash(stored) /\ Tail(stored) = password

\* length of the stored text: a scrypt digest has 162 characters
StoredLen(v) == IF IsHash(v) THEN 162 ELSE Len(v)

(***************************************************************************)
(* Seed data: four jerarquias and one user of each.                        *)
(***************************************************************************)
SeedJerarquias ==
    (1 :> [nivel_acceso |-> PARTICIPANTE]) @@ (2 :> [nivel_acceso |-> MOD_TACTICO])
    @@ (3 :> [nivel_acceso |-> 90]) @@ (4 :> [nivel_acceso |-> ADMIN])

Usuario(alias, email, hashed, foto, id_jerarquia) ==
    [alias_usuario |-> alias, email_usuario |-> email, password_usuario |-> hashed,
     foto_usuario |-> foto, id_jerarquia |-> id_jerarquia]

SeedUsuarios ==
    (1 :> Usuario(<<"u", "s", "1">>, <<"1", "@", "x">>, generate_password_hash(<<"p", "w">>), NoneTxt, 1))
    @@ (2 :> Usuario(<<"u", "s", "2">>, <<"2", "@", "x">>, generate_password_hash(<<"p", "w">>), NoneTxt, 2))
    @@ (3 :> Usuario(<<"u", "s", "3">>, <<"3", "@", "x">>, generate_password_hash(<<"p", "w">>), NoneTxt, 3))
    @@ (4 :> Usuario(TxtRoot, MailRoot, generate_password_hash(<<"p", "w">>), NoneTxt, 4))

SeedSeq == [usuarios |-> 4, protocolos |-> 0, equipos |-> 0, torneos |-> 0]

\* flask_login current_user: 0 is the anonymous user.
Anonymous == 0

is_authenticated == current_user \in DOMAIN usuarios

\* current_user.jerarquia.nivel_acceso
user_level == jerarquias[usuarios[current_user].id_jerarquia].nivel_acceso

(***************************************************************************)
(* app.before_request require_login                                        *)
(***************************************************************************)
\* only the static files are exempt, the auth views are gated too
EndpointIsPublic_static(endpoint) == endpoint = "static"

EndpointIsPublic(endpoint) == endpoint \in {"auth.login", "auth.logout", "static"}

require_login_open(endpoint) == "pass"

require_login(endpoint) ==
    IF ~is_authenticated /\ ~EndpointIsPublic(endpoint) THEN "redirect_login_next" ELSE "pass"

(***************************************************************************)
(* utils.decorators.permission_required                                    *)
(***************************************************************************)
permission_required_ge(allowed_levels) ==
    IF ~is_authenticated THEN "redirect_login"
    ELSE IF user_level /= ADMIN /\ ~(\E a \in allowed_levels : user_level >= a)
         THEN "redirect_index"
         ELSE "run"

permission_required(allowed_levels) ==
    IF ~is_authenticated THEN "redirect_login"
    ELSE IF user_level /= ADMIN /\ user_level \notin allowed_levels
         THEN "redirect_index"
         ELSE "run"

(***************************************************************************)
(* services.dashboard_service._calculate_access_level                      *)
(* user = [is_authenticated, jerarquia]; jerarquia is None or a level.     *)
(***************************************************************************)
_calculate_access_level_gt(user) ==
    IF ~user.is_authenticated THEN PARTICIPANTE
    ELSE IF user.jerarquia = None THEN PARTICIPANTE
    ELSE LET level == user.jerarquia IN
         IF level > ADMIN THEN ADMIN
         ELSE IF level > MOD_SISTEMA THEN MOD_SISTEMA
         ELSE IF level > MOD_ARENA THEN MOD_ARENA
         ELSE IF level > MOD_TACTICO THEN MOD_TACTICO
         ELSE PARTICIPANTE

_calculate_access_level(user) ==
    IF ~user.is_authenticated THEN PARTICIPANTE
    ELSE IF user.jerarquia = None THEN PARTICIPANTE
    ELSE LET level == user.jerarquia IN
         IF level >= ADMIN THEN ADMIN
         ELSE IF level >= MOD_SISTEMA THEN MOD_SISTEMA
         ELSE IF level >= MOD_ARENA THEN MOD_ARENA
         ELSE IF level >= MOD_TACTICO THEN MOD_TACTICO
         ELSE PARTICIPANTE


(***************************************************************************)
(* Persistence helpers.                                                    *)
(***************************************************************************)
EmptyMap == [k \in {} |-> 0]

Put(table, id, row) == [k \in DOMAIN table \cup {id} |-> IF k = id THEN row ELSE table[k]]

Del(table, id) == [k \in DOMAIN table \ {id} |-> table[k]]

NoEquipo == [id_comandante |-> None, maximo_miembros |-> None, miembros |-> <<>>]

(***************************************************************************)
(* Bounds.                                                                 *)
(***************************************************************************)
MaxProtocolos == 2

MaxEquipos == 1

MaxTorneos == 2

MaxNuevosUsuarios == 2

MaxMaximo == 3

MaxCapacidad == 2

MaxFecha == 3

(***************************************************************************)
(* routes.auth_routes                                                      *)
(***************************************************************************)
LoginEmails == {<<"1", "@", "x">>, <<"2", "@", "x">>, <<"3", "@", "x">>, MailRoot, MailNeo}

LoginPasswords == {<<"p", "w">>, <<"n", "o">>}

\* usuarios_services.get_usuario_by_email: the id of the user, or None
get_usuario_by_email(email) ==
    IF \E u \in DOMAIN usuarios : usuarios[u].email_usuario = email
    THEN CHOOSE u \in DOMAIN usuarios : usuarios[u].email_usuario = email
    ELSE None

LoginRedirect(user, next_page) ==
    LET nivel == jerarquias[usuarios[user].id_jerarquia].nivel_acceso IN
    IF next_page THEN "redirect_next"
    ELSE IF nivel >= 80 THEN "redirect_index"
    ELSE IF nivel >= 50 THEN "redirect_equipo_index"
    ELSE "redirect_torneo_index"

Login(method, email, password, next_page) ==
    LET user == get_usuario_by_email(email) IN
    /\ IF is_authenticated
       THEN /\ current_user' = current_user
            /\ last' = [op |-> "auth.login", response |-> "redirect_index", logged_in |-> FALSE]
       ELSE IF method = "GET"
       THEN /\ current_user' = current_user
            /\ last' = [op |-> "auth.login", response |-> "render_login", logged_in |-> FALSE]
       ELSE IF user = None \/ ~check_password_hash(usuarios[user].password_usuario, password)
       THEN /\ current_user' = current_user
            /\ last' = [op |-> "auth.login", response |-> "redirect_login", logged_in |-> FALSE]
       ELSE /\ current_user' = user
            /\ last' = [op |-> "auth.login", response |-> LoginRedirect(user, next_page),
                        logged_in |-> TRUE]
    /\ UNCHANGED <<usuarios, jerarquias, protocolos, equipos, equipo, torneos, pend, seq>>
    /\ UNCHANGED <<avatars, now, config>>

Logout ==
    /\ current_user' = Anonymous
    /\ last' = [op |-> "auth.logout", response |-> "redirect_login", logged_in |-> FALSE]
    /\ UNCHANGED <<usuarios, jerarquias, protocolos, equipos, equipo, torneos, pend, seq>>
    /\ UNCHANGED <<avatars, now, config>>

(***************************************************************************)
(* A handler f wrapped by the permission_required decorator.               *)
(***************************************************************************)
Caller == [authenticated |-> is_authenticated,
           level |-> IF is_authenticated THEN user_level ELSE None]

decorated_function(allowed_levels) ==
    LET gate == permission_required(allowed_levels) IN
    /\ last' = [op |-> "decorated_function", allowed |-> allowed_levels,
                authenticated |-> Caller.authenticated, level |-> Caller.level,
                response |-> IF gate = "run" THEN "f_response" ELSE gate,
                executed |-> (gate = "run")]
    /\ UNCHANGED <<current_user, usuarios, jerarquias, protocolos, equipos, equipo,
                   torneos, pend, seq>>
    /\ UNCHANGED <<avatars, now, config>>


(***************************************************************************)
(* services.protocolos_services                                            *)
(* A Protocolo row is [codigo, nombre, categoria, descripcion]; the        *)
(* description is kept as its length.                                      *)
(***************************************************************************)
CodigoProtocoloByCodigo(txt) ==
    IF txt = "SYS_ROOT" THEN "sys_root"
    ELSE IF txt = "ARN_BUILD" THEN "arn_build"
    ELSE NoneStr

CategoriaProtocoloByName(txt) == IF txt \in {"system", "user", "arena"} THEN txt ELSE NoneStr

\* len(codigo.capacidad)
CapacidadLen(codigo) == IF codigo = "sys_root" THEN 86 ELSE 86

\* column defaults are applied to attributes left at None
ProtocoloDefaults(row) ==
    [row EXCEPT !.codigo = IF @ = NoneStr THEN "arn_build" ELSE @,
                !.categoria = IF @ = NoneStr THEN "user" ELSE @]

\* CHECK, NOT NULL and UNIQUE constraints of table protocolos
ProtocoloRowOk(table, id, row) ==
    /\ row.nombre /= NoneTxt
    /\ Len(row.nombre) >= 3
    /\ row.descripcion /= None
    /\ row.descripcion >= 10
    /\ \A k \in DOMAIN table \ {id} : table[k].codigo /= row.codigo

_check_nombre_unique(nombre, exclude_id) ==
    ~\E k \in DOMAIN protocolos \ {exclude_id} : protocolos[k].nombre = nombre

create_protocol(codigo, nombre, categoria, descripcion) ==
    LET id == seq.protocolos + 1
        row == ProtocoloDefaults([codigo |-> codigo, nombre |-> nombre,
                                  categoria |-> categoria, descripcion |-> descripcion])
    IN
    IF nombre = NoneTxt \/ nombre = Txt0 THEN [exc |-> "ValueError", table |-> protocolos]
    ELSE IF ~_check_nombre_unique(nombre, None) THEN [exc |-> "ValueError", table |-> protocolos]
    ELSE IF ~ProtocoloRowOk(protocolos, id, row)
         THEN [exc |-> "SQLAlchemyError", table |-> protocolos]
         ELSE [exc |-> "None", table |-> Put(protocolos, id, row)]

update_protocol(id, codigo, nombre, categoria, descripcion) ==
    IF id \notin DOMAIN protocolos THEN [exc |-> "LookupError", table |-> protocolos]
    ELSE IF nombre /= NoneTxt /\ nombre /= Txt0 /\ ~_check_nombre_unique(nombre, id)
         THEN [exc |-> "ValueError", table |-> protocolos]
    ELSE LET old == protocolos[id]
             row == [codigo |-> IF codigo /= NoneStr THEN codigo ELSE old.codigo,
                     nombre |-> IF nombre /= NoneTxt THEN nombre ELSE old.nombre,
                     categoria |-> IF categoria /= NoneStr THEN categoria ELSE old.categoria,
                     descripcion |-> IF descripcion /= None THEN descripcion
                                     ELSE old.descripcion]
         IN IF ~ProtocoloRowOk(protocolos, id, row)
            THEN [exc |-> "SQLAlchemyError", table |-> protocolos]
            ELSE [exc |-> "None", table |-> Put(protocolos, id, row)]

delete_protocolo(id) ==
    IF id \notin DOMAIN protocolos THEN [exc |-> "LookupError", table |-> protocolos]
    ELSE [exc |-> "None", table |-> Del(protocolos, id)]

(***************************************************************************)
(* routes.protocolos_routes: create, update, delete                        *)
(***************************************************************************)
FormCodigos == {"SYS_ROOT", "ARN_BUILD", "BOGUS"}

FormNombres == {NoneTxt, Txt0, TxtAb, TxtAce, TxtNeo}

FormCategorias == {NoneStr, "system"}

FormDescripciones == {None, 12}

ProtocoloIds == 1..MaxProtocolos

create_gate == permission_required(ProfilesROOT)

update_gate == permission_required(ProfilesROOT)

delete_gate_open == IF is_authenticated THEN "run" ELSE "redirect_login"

delete_gate == permission_required(ProfilesROOT)

\* the description sent to the service: the capacity of a valid code, else the form field
RouteDescripcion(codigo, descripcion_form) ==
    IF codigo /= NoneStr THEN CapacidadLen(codigo) ELSE descripcion_form

ProtocoloResponse(op, method, gate, response, executed, table) ==
    /\ protocolos' = table
    /\ seq' = [seq EXCEPT !.protocolos = IF DOMAIN table \subseteq DOMAIN protocolos
                                         THEN @ ELSE @ + 1]
    /\ last' = [op |-> op, method |-> method, authenticated |-> Caller.authenticated,
                level |-> Caller.level, response |-> response, executed |-> executed]
    /\ UNCHANGED <<current_user, usuarios, jerarquias, equipos, equipo, torneos, pend>>
    /\ UNCHANGED <<avatars, now, config>>

ProtocoloCreate(method, codigo_txt, nombre, categoria_txt, descripcion_form) ==
    LET codigo == CodigoProtocoloByCodigo(codigo_txt)
        r == create_protocol(codigo, nombre, CategoriaProtocoloByName(categoria_txt),
                             RouteDescripcion(codigo, descripcion_form))
    IN
    /\ seq.protocolos < MaxProtocolos
    /\ IF require_login("protocolo.create") /= "pass"
       THEN ProtocoloResponse("protocolo.create", method, "none", "redirect_login_next",
                              FALSE, protocolos)
       ELSE IF create_gate /= "run"
       THEN ProtocoloResponse("protocolo.create", method, create_gate, create_gate,
                              FALSE, protocolos)
       ELSE IF method = "GET"
       THEN ProtocoloResponse("protocolo.create", method, "run", "render_create",
                              TRUE, protocolos)
       ELSE IF nombre = NoneTxt
       THEN ProtocoloResponse("protocolo.create", method, "run", "error_400",
                              TRUE, protocolos)
       ELSE ProtocoloResponse("protocolo.create", method, "run",
                              IF r.exc = "None" THEN "redirect_protocolo_index"
                              ELSE "error_500", TRUE, r.table)

ProtocoloUpdate(method, id, codigo_txt, nombre, categoria_txt, descripcion_form) ==
    LET codigo == CodigoProtocoloByCodigo(codigo_txt)
        r == update_protocol(id, codigo, nombre, CategoriaProtocoloByName(categoria_txt),
                             RouteDescripcion(codigo, descripcion_form))
    IN
    IF require_login("protocolo.update") /= "pass"
    THEN ProtocoloResponse("protocolo.update", method, "none", "redirect_login_next",
                           FALSE, protocolos)
    ELSE IF update_gate /= "run"
    THEN ProtocoloResponse("protocolo.update", method, update_gate, update_gate,
                           FALSE, protocolos)
    ELSE IF method = "GET"
    THEN ProtocoloResponse("protocolo.update", method, "run", "render_update",
                           TRUE, protocolos)
    ELSE ProtocoloResponse("protocolo.update", method, "run",
                           IF r.exc = "None" THEN "redirect_protocolo_index"
                           ELSE "error_500", TRUE, r.table)

ProtocoloDelete(id) ==
    LET r == delete_protocolo(id) IN
    IF require_login("protocolo.delete") /= "pass"
    THEN ProtocoloResponse("protocolo.delete", "GET", "none", "redirect_login_next",
                           FALSE, protocolos)
    ELSE IF delete_gate /= "run"
    THEN ProtocoloResponse("protocolo.delete", "GET", delete_gate, delete_gate,
                           FALSE, protocolos)
    ELSE ProtocoloResponse("protocolo.delete", "GET", "run",
                           IF r.exc = "None" THEN "redirect_protocolo_index"
                           ELSE "error_500", TRUE, r.table)

(***************************************************************************)
(* Specification of the permission gate and the protocolos routes.         *)
(***************************************************************************)
InitCommon ==
    /\ current_user = Anonymous
    /\ usuarios = SeedUsuarios
    /\ jerarquias = SeedJerarquias
    /\ protocolos = EmptyMap
    /\ equipos = EmptyMap
    /\ equipo = NoEquipo
    /\ torneos = EmptyMap
    /\ pend = EmptyMap
    /\ seq = SeedSeq
    /\ last = [op |-> "init"]
    /\ avatars = EmptyMap
    /\ now = 0
    /\ config = EmptyMap

InitGate == InitCommon

NextGate ==
    \/ \E method \in {"GET", "POST"}, email \in LoginEmails, password \in LoginPasswords,
          next_page \in BOOLEAN : Login(method, email, password, next_page)
    \/ Logout
    \/ \E allowed \in SUBSET Tiers : decorated_function(allowed)

SpecGate == InitGate /\ [][NextGate]_vars

InitProtocolo == InitCommon

NextProtocolo ==
    \/ \E email \in LoginEmails, password \in LoginPasswords :
          Login("POST", email, password, FALSE)
    \/ Logout
    \/ ProtocoloCreate("GET", "BOGUS", NoneTxt, NoneStr, None)
    \/ \E c \in FormCodigos, n \in FormNombres, k \in FormCategorias,
          d \in FormDescripciones : ProtocoloCreate("POST", c, n, k, d)
    \/ \E id \in ProtocoloIds : ProtocoloUpdate("GET", id, "BOGUS", NoneTxt, NoneStr, None)
    \/ \E id \in ProtocoloIds, c \in FormCodigos, n \in FormNombres, k \in FormCategorias,
          d \in FormDescripciones : ProtocoloUpdate("POST", id, c, n, k, d)
    \/ \E id \in ProtocoloIds : ProtocoloDelete(id)

SpecProtocolo == InitProtocolo /\ [][NextProtocolo]_vars


(***************************************************************************)
(* Specification applying _calculate_access_level to every user.           *)
(***************************************************************************)
\* upper end of CHECK nivel_acceso >= 0 AND nivel_acceso <= 100
NivelMax == 100

AccessUsers == [is_authenticated : BOOLEAN, jerarquia : {None} \cup 0..NivelMax]

CalculateAccessLevel(user) ==
    /\ last' = [op |-> "_calculate_access_level", user |-> user,
                result |-> _calculate_access_level(user)]
    /\ UNCHANGED <<current_user, usuarios, jerarquias, protocolos, equipos, equipo,
                   torneos, pend, seq>>
    /\ UNCHANGED <<avatars, now, config>>

InitAccess == InitCommon

NextAccess == \E user \in AccessUsers : CalculateAccessLevel(user)

SpecAccess == InitAccess /\ [][NextAccess]_vars

(***************************************************************************)
(* Access control properties.                                              *)
(***************************************************************************)
\* C1: permission_required: an unauthenticated requester never runs the handler
\* and is redirected to the login page; an authenticated one runs it exactly when
\* the raw level is ADMIN or a member of the allow-list, and is otherwise
\* redirected to the index page.
C1_PermissionRequired ==
    last.op = "decorated_function" =>
        /\ ~last.authenticated => (~last.executed /\ last.response = "redirect_login")
        /\ last.authenticated =>
              (last.executed <=> (last.level = ADMIN \/ last.level \in last.allowed))
        /\ (last.authenticated /\ ~last.executed) => last.response = "redirect_index"

\* a level-90 user is refused by an allow-list that holds the lower tier 80
C1_Witness ==
    /\ last.op = "decorated_function"
    /\ last.authenticated
    /\ last.level = 90
    /\ MOD_SISTEMA \in last.allowed
    /\ ~last.executed
    /\ last.response = "redirect_index"

\* C2: _calculate_access_level returns the largest of the five tier constants
\* whose threshold is <= the user's raw level, PARTICIPANTE for an unauthenticated
\* user or one without jerarquia, and always one of the five constants.
C2_AccessLevel ==
    last.op = "_calculate_access_level" =>
        /\ last.result \in Tiers
        /\ (last.user.is_authenticated /\ last.user.jerarquia /= None) =>
              last.result = Max({t \in Tiers : t <= last.user.jerarquia})
        /\ (~last.user.is_authenticated \/ last.user.jerarquia = None) =>
              last.result = PARTICIPANTE

\* a raw level exactly on a threshold maps to that tier
C2_Witness ==
    /\ last.op = "_calculate_access_level"
    /\ last.user.is_authenticated
    /\ last.user.jerarquia = MOD_ARENA
    /\ last.result = MOD_ARENA

ProtocoloOps == {"protocolo.create", "protocolo.update", "protocolo.delete"}

\* C3: a request to /protocolos/create, /update/<id> or /delete/<id> by an
\* authenticated user whose raw level is neither ADMIN nor in Profiles.ROOT is
\* redirected without running the handler and leaves the protocolos unchanged.
C3_ProtocolosDenied ==
    [][(/\ last'.op \in ProtocoloOps
        /\ last'.authenticated
        /\ last'.level /= ADMIN
        /\ last'.level \notin ProfilesROOT)
       => (/\ ~last'.executed
           /\ last'.response = "redirect_index"
           /\ protocolos' = protocolos)]_vars

\* a PARTICIPANTE-level user was turned away from /protocolos/delete/<id> while
\* a protocolo existed
C3_Witness ==
    /\ last.op = "protocolo.delete"
    /\ last.authenticated
    /\ last.level = PARTICIPANTE
    /\ last.response = "redirect_index"
    /\ DOMAIN protocolos /= {}


(***************************************************************************)
(* models.equipos_models.Equipo: membership helpers.                       *)
(* An Equipo is a record whose miembros field is the list of member ids.   *)
(***************************************************************************)
es_comandante(eq, usuario_id) == eq.id_comandante = usuario_id

es_miembro(eq, usuario_id) == \E i \in 1..Len(eq.miembros) : eq.miembros[i] = usuario_id

miembros_count(eq) == Len(eq.miembros)

\* the capacity test compares with >, so a full team still takes one more
agregar_miembro_gt(eq, usuario) ==
    IF es_miembro(eq, usuario) THEN [ret |-> "False", miembros |-> eq.miembros]
    ELSE IF eq.maximo_miembros = None THEN [ret |-> "TypeError", miembros |-> eq.miembros]
    ELSE IF miembros_count(eq) > eq.maximo_miembros
         THEN [ret |-> "ValueError", miembros |-> eq.miembros]
         ELSE [ret |-> "True", miembros |-> Append(eq.miembros, usuario)]

\* the capacity test is off by one, so the last free place is refused
agregar_miembro_early(eq, usuario) ==
    IF es_miembro(eq, usuario) THEN [ret |-> "False", miembros |-> eq.miembros]
    ELSE IF eq.maximo_miembros = None THEN [ret |-> "TypeError", miembros |-> eq.miembros]
    ELSE IF miembros_count(eq) + 1 >= eq.maximo_miembros
         THEN [ret |-> "ValueError", miembros |-> eq.miembros]
         ELSE [ret |-> "True", miembros |-> Append(eq.miembros, usuario)]

\* the membership test is skipped
agregar_miembro_nocheck(eq, usuario) ==
    IF eq.maximo_miembros = None THEN [ret |-> "TypeError", miembros |-> eq.miembros]
    ELSE IF miembros_count(eq) >= eq.maximo_miembros
         THEN [ret |-> "ValueError", miembros |-> eq.miembros]
         ELSE [ret |-> "True", miembros |-> Append(eq.miembros, usuario)]

\* ret is the returned boolean or the exception raised; the comparison of the
\* member count with a maximo_miembros of None raises TypeError
agregar_miembro(eq, usuario) ==
    IF es_miembro(eq, usuario) THEN [ret |-> "False", miembros |-> eq.miembros]
    ELSE IF eq.maximo_miembros = None THEN [ret |-> "TypeError", miembros |-> eq.miembros]
    ELSE IF miembros_count(eq) >= eq.maximo_miembros
         THEN [ret |-> "ValueError", miembros |-> eq.miembros]
         ELSE [ret |-> "True", miembros |-> Append(eq.miembros, usuario)]

remover_miembro(eq, usuario) ==
    IF ~es_miembro(eq, usuario) THEN [ret |-> "False", miembros |-> eq.miembros]
    ELSE [ret |-> "True",
          miembros |-> SelectSeq(eq.miembros, LAMBDA u : u /= usuario)]

(***************************************************************************)
(* Specification of one Equipo object and its membership methods.          *)
(***************************************************************************)
UsuarioIds == DOMAIN SeedUsuarios

AgregarMiembro(usuario) ==
    LET r == agregar_miembro(equipo, usuario) IN
    /\ equipo' = [equipo EXCEPT !.miembros = r.miembros]
    /\ last' = [op |-> "agregar_miembro", usuario |-> usuario, ret |-> r.ret]
    /\ UNCHANGED <<current_user, usuarios, jerarquias, protocolos, equipos, torneos,
                   pend, seq>>
    /\ UNCHANGED <<avatars, now, config>>

RemoverMiembro(usuario) ==
    LET r == remover_miembro(equipo, usuario) IN
    /\ equipo' = [equipo EXCEPT !.miembros = r.miembros]
    /\ last' = [op |-> "remover_miembro", usuario |-> usuario, ret |-> r.ret]
    /\ UNCHANGED <<current_user, usuarios, jerarquias, protocolos, equipos, torneos,
                   pend, seq>>
    /\ UNCHANGED <<avatars, now, config>>

\* equipo.maximo_miembros = int(maximo_miembros)
AsignarMaximo(maximo) ==
    /\ equipo' = [equipo EXCEPT !.maximo_miembros = maximo]
    /\ last' = [op |-> "maximo_miembros", usuario |-> None, ret |-> "None"]
    /\ UNCHANGED <<current_user, usuarios, jerarquias, protocolos, equipos, torneos,
                   pend, seq>>
    /\ UNCHANGED <<avatars, now, config>>

InitEquipoModel ==
    /\ current_user = Anonymous
    /\ usuarios = SeedUsuarios
    /\ jerarquias = SeedJerarquias
    /\ protocolos = EmptyMap
    /\ equipos = EmptyMap
    /\ equipo \in {[id_comandante |-> c, maximo_miembros |-> m, miembros |-> <<>>] :
                      c \in UsuarioIds, m \in 2..MaxMaximo}
    /\ torneos = EmptyMap
    /\ pend = EmptyMap
    /\ seq = SeedSeq
    /\ last = [op |-> "init"]
    /\ avatars = EmptyMap
    /\ now = 0
    /\ config = EmptyMap

NextEquipoModel ==
    \/ \E usuario \in UsuarioIds : AgregarMiembro(usuario)
    \/ \E usuario \in UsuarioIds : RemoverMiembro(usuario)
    \/ \E maximo \in 2..MaxMaximo : AsignarMaximo(maximo)

SpecEquipoModel == InitEquipoModel /\ [][NextEquipoModel]_vars

(***************************************************************************)
(* Membership properties of Equipo.agregar_miembro / remover_miembro.      *)
(***************************************************************************)
AtCapacity == miembros_count(equipo) >= equipo.maximo_miembros

\* C5 as stated: agregar_miembro on a team whose member count has reached
\* maximo_miembros raises ValueError and leaves miembros unchanged, for every
\* Usuario passed.
C5_Original ==
    [][(last'.op = "agregar_miembro" /\ AtCapacity)
       => (last'.ret = "ValueError" /\ equipo'.miembros = equipo.miembros)]_vars

\* C5: agregar_miembro on a team whose member count has reached maximo_miembros,
\* called with a Usuario who is not yet a member, raises ValueError and leaves
\* miembros unchanged; called with a member it returns False and leaves miembros
\* unchanged.
C5_FullTeamRaises ==
    [][(last'.op = "agregar_miembro" /\ AtCapacity)
       => (/\ equipo'.miembros = equipo.miembros
           /\ last'.ret = IF es_miembro(equipo, last'.usuario) THEN "False"
                          ELSE "ValueError")]_vars

\* a non-member was refused by a full team
C5_Witness ==
    /\ last.op = "agregar_miembro"
    /\ last.ret = "ValueError"
    /\ ~es_miembro(equipo, last.usuario)
    /\ miembros_count(equipo) >= equipo.maximo_miembros

\* C6: agregar_miembro with a non-member on a team below capacity returns True,
\* raises the member count by exactly 1, adds that user and keeps every previous
\* member in place.
C6_AddBelowCapacity ==
    [][(/\ last'.op = "agregar_miembro"
        /\ ~es_miembro(equipo, last'.usuario)
        /\ miembros_count(equipo) < equipo.maximo_miembros)
       => (/\ last'.ret = "True"
           /\ miembros_count(equipo') = miembros_count(equipo) + 1
           /\ es_miembro(equipo', last'.usuario)
           /\ \A i \in 1..Len(equipo.miembros) : equipo'.miembros[i] = equipo.miembros[i])]_vars

\* the last free place of a team was taken by a new member
C6_Witness ==
    /\ last.op = "agregar_miembro"
    /\ last.ret = "True"
    /\ miembros_count(equipo) = equipo.maximo_miembros
    /\ equipo.miembros[Len(equipo.miembros)] = last.usuario

NoDuplicateMiembros(eq) ==
    \A i, j \in 1..Len(eq.miembros) : eq.miembros[i] = eq.miembros[j] => i = j

\* C7: agregar_miembro with a Usuario who is already a member returns False and
\* leaves miembros unchanged, and no user ever appears twice in miembros.
C7_IdempotentAdd ==
    /\ []NoDuplicateMiembros(equipo)
    /\ [][(last'.op = "agregar_miembro" /\ es_miembro(equipo, last'.usuario))
          => (last'.ret = "False" /\ equipo'.miembros = equipo.miembros)]_vars

\* a member was added again to a team that still had room
C7_Witness ==
    /\ last.op = "agregar_miembro"
    /\ last.ret = "False"
    /\ es_miembro(equipo, last.usuario)
    /\ miembros_count(equipo) < equipo.maximo_miembros


(***************************************************************************)
(* services.equipos_services                                               *)
(* A persisted Equipo is [nombre_equipo, color_equipo, estado_equipo,      *)
(* maximo_miembros, id_comandante, miembros].  Every service returns       *)
(* [ret, table]: ret is the returned value or the exception raised, table  *)
(* the committed equipos.                                                  *)
(***************************************************************************)
TxtPadNeo == <<" ", "N", "e", "o", " ">>

ColorOk == <<"#", "A", "3", "F", "F", "0", "0">>

ColorBad == <<"r", "e", "d">>

RECURSIVE LStrip(_)
LStrip(t) == IF t /= <<>> /\ Head(t) = " " THEN LStrip(Tail(t)) ELSE t

RECURSIVE RStrip(_)
RStrip(t) == IF t /= <<>> /\ t[Len(t)] = " " THEN RStrip(SubSeq(t, 1, Len(t) - 1)) ELSE t

\* str.strip()
strip(t) == RStrip(LStrip(t))

EstadoEquipoNames == {"pendiente", "activo", "inactivo", "eliminado"}

\* usuarios_services.get_usuarios_by_id: the id when the row exists, else None
get_usuarios_by_id(id_usuario) == IF id_usuario \in DOMAIN usuarios THEN id_usuario ELSE None

\* get_equipos_by_id
get_equipos_by_id(id_equipo) == IF id_equipo \in DOMAIN equipos THEN id_equipo ELSE None

\* column default of maximo_miembros, applied to an attribute left at None
EquipoDefaults(row) == [row EXCEPT !.maximo_miembros = IF @ = None THEN 2 ELSE @]

\* CHECK, NOT NULL, UNIQUE and FOREIGN KEY constraints of table equipos
EquipoRowOk(table, id, row) ==
    /\ Len(row.nombre_equipo) >= 3
    /\ \A k \in DOMAIN table \ {id} : table[k].nombre_equipo /= row.nombre_equipo
    /\ row.color_equipo /= NoneTxt
    /\ Len(row.color_equipo) = 7
    /\ row.color_equipo[1] = "#"
    /\ row.maximo_miembros >= 2
    /\ row.maximo_miembros <= 100
    /\ ForeignKeysEnforced => row.id_comandante \in DOMAIN usuarios

\* the commander is not enrolled when the team is created
create_equipo_noenrol(nombre_equipo, estado_equipo, id_comandante, maximo_miembros, color_equipo) ==
    IF nombre_equipo = NoneTxt \/ nombre_equipo = Txt0 \/ estado_equipo = NoneStr
       \/ id_comandante = None \/ id_comandante = 0
    THEN [ret |-> "ValueError", table |-> equipos]
    ELSE IF strip(nombre_equipo) = Txt0 THEN [ret |-> "ValueError", table |-> equipos]
    ELSE IF estado_equipo \notin EstadoEquipoNames THEN [ret |-> "TypeError", table |-> equipos]
    ELSE LET id == seq.equipos + 1
             nuevo == [nombre_equipo |-> strip(nombre_equipo), color_equipo |-> color_equipo,
                       estado_equipo |-> estado_equipo, maximo_miembros |-> maximo_miembros,
                       id_comandante |-> id_comandante, miembros |-> <<>>]
             row == EquipoDefaults(nuevo)
         IN IF ~EquipoRowOk(equipos, id, row) THEN [ret |-> "None", table |-> equipos]
            ELSE [ret |-> "Equipo", table |-> Put(equipos, id, row)]

create_equipo(nombre_equipo, estado_equipo, id_comandante, maximo_miembros, color_equipo) ==
    IF nombre_equipo = NoneTxt \/ nombre_equipo = Txt0 \/ estado_equipo = NoneStr
       \/ id_comandante = None \/ id_comandante = 0
    THEN [ret |-> "ValueError", table |-> equipos]
    ELSE IF strip(nombre_equipo) = Txt0 THEN [ret |-> "ValueError", table |-> equipos]
    ELSE IF estado_equipo \notin EstadoEquipoNames THEN [ret |-> "TypeError", table |-> equipos]
    ELSE LET id == seq.equipos + 1
             nuevo == [nombre_equipo |-> strip(nombre_equipo), color_equipo |-> color_equipo,
                       estado_equipo |-> estado_equipo, maximo_miembros |-> maximo_miembros,
                       id_comandante |-> id_comandante, miembros |-> <<>>]
             comandante_user == get_usuarios_by_id(id_comandante)
             r == agregar_miembro(nuevo, comandante_user)
             row == EquipoDefaults([nuevo EXCEPT !.miembros =
                                      IF comandante_user /= None THEN r.miembros ELSE @])
         IN IF comandante_user /= None /\ r.ret \in {"TypeError", "ValueError"}
            THEN [ret |-> r.ret, table |-> equipos]
            ELSE IF ~EquipoRowOk(equipos, id, row) THEN [ret |-> "None", table |-> equipos]
            ELSE [ret |-> "Equipo", table |-> Put(equipos, id, row)]

\* a new commander is assigned without being enrolled
update_equipo_noenrol(id_equipo, nombre_equipo, maximo_miembros, color_equipo, estado_equipo, id_comandante) ==
    IF get_equipos_by_id(id_equipo) = None THEN [ret |-> "ValueError", table |-> equipos]
    ELSE IF estado_equipo /= NoneStr /\ estado_equipo \notin EstadoEquipoNames
    THEN [ret |-> "TypeError", table |-> equipos]
    ELSE LET old == equipos[id_equipo]
             e1 == [old EXCEPT
                      !.nombre_equipo = IF nombre_equipo /= NoneTxt THEN strip(nombre_equipo) ELSE @,
                      !.maximo_miembros = IF maximo_miembros /= None THEN maximo_miembros ELSE @,
                      !.color_equipo = IF color_equipo /= NoneTxt THEN color_equipo ELSE @,
                      !.estado_equipo = IF estado_equipo /= NoneStr THEN estado_equipo ELSE @,
                      !.id_comandante = IF id_comandante /= None THEN id_comandante ELSE @]
         IN IF ~EquipoRowOk(equipos, id_equipo, e1) THEN [ret |-> "None", table |-> equipos]
            ELSE [ret |-> "Equipo", table |-> Put(equipos, id_equipo, e1)]

update_equipo(id_equipo, nombre_equipo, maximo_miembros, color_equipo, estado_equipo, id_comandante) ==
    IF get_equipos_by_id(id_equipo) = None THEN [ret |-> "ValueError", table |-> equipos]
    ELSE IF estado_equipo /= NoneStr /\ estado_equipo \notin EstadoEquipoNames
    THEN [ret |-> "TypeError", table |-> equipos]
    ELSE LET old == equipos[id_equipo]
             e1 == [old EXCEPT
                      !.nombre_equipo = IF nombre_equipo /= NoneTxt THEN strip(nombre_equipo) ELSE @,
                      !.maximo_miembros = IF maximo_miembros /= None THEN maximo_miembros ELSE @,
                      !.color_equipo = IF color_equipo /= NoneTxt THEN color_equipo ELSE @,
                      !.estado_equipo = IF estado_equipo /= NoneStr THEN estado_equipo ELSE @,
                      !.id_comandante = IF id_comandante /= None THEN id_comandante ELSE @]
             nuevo_comandante == IF id_comandante /= None THEN get_usuarios_by_id(id_comandante)
                                 ELSE None
             enrol == nuevo_comandante /= None /\ ~es_miembro(e1, nuevo_comandante)
             r == agregar_miembro(e1, nuevo_comandante)
             e2 == IF enrol THEN [e1 EXCEPT !.miembros = r.miembros] ELSE e1
         IN IF enrol /\ r.ret = "ValueError" THEN [ret |-> "TypeError", table |-> equipos]
            ELSE IF ~EquipoRowOk(equipos, id_equipo, e2) THEN [ret |-> "None", table |-> equipos]
            ELSE [ret |-> "Equipo", table |-> Put(equipos, id_equipo, e2)]

add_member_to_equipo(id_equipo, id_usuario) ==
    IF get_equipos_by_id(id_equipo) = None THEN [ret |-> "ValueError", table |-> equipos]
    ELSE IF id_usuario \notin DOMAIN usuarios THEN [ret |-> "ValueError", table |-> equipos]
    ELSE LET r == agregar_miembro(equipos[id_equipo], id_usuario) IN
         IF r.ret = "False" THEN [ret |-> "True", table |-> equipos]
         ELSE IF r.ret = "ValueError" THEN [ret |-> "ValueError", table |-> equipos]
         ELSE [ret |-> "True",
               table |-> Put(equipos, id_equipo, [equipos[id_equipo] EXCEPT !.miembros = r.miembros])]

\* the commander is not protected
remove_member_from_equipo_noguard(id_equipo, id_usuario) ==
    IF get_equipos_by_id(id_equipo) = None THEN [ret |-> "ValueError", table |-> equipos]
    ELSE IF id_usuario \notin DOMAIN usuarios THEN [ret |-> "True", table |-> equipos]
    ELSE LET r == remover_miembro(equipos[id_equipo], id_usuario) IN
         [ret |-> "True",
          table |-> Put(equipos, id_equipo, [equipos[id_equipo] EXCEPT !.miembros = r.miembros])]

remove_member_from_equipo(id_equipo, id_usuario) ==
    IF get_equipos_by_id(id_equipo) = None THEN [ret |-> "ValueError", table |-> equipos]
    ELSE IF id_usuario \notin DOMAIN usuarios THEN [ret |-> "True", table |-> equipos]
    ELSE IF es_comandante(equipos[id_equipo], id_usuario)
         THEN [ret |-> "ValueError", table |-> equipos]
    ELSE LET r == remover_miembro(equipos[id_equipo], id_usuario) IN
         [ret |-> "True",
          table |-> Put(equipos, id_equipo, [equipos[id_equipo] EXCEPT !.miembros = r.miembros])]


(***************************************************************************)
(* Specification of the equipos services.                                  *)
(***************************************************************************)
EquipoIds == 1..MaxEquipos

\* ids passed as id_usuario / id_comandante: three existing users and 9, which
\* names no user
EquipoUserArgs == {1, 2, 3, 9}

EquipoCall(op, id_equipo, id_usuario, r) ==
    /\ equipos' = r.table
    /\ seq' = [seq EXCEPT !.equipos = IF DOMAIN r.table \subseteq DOMAIN equipos
                                      THEN @ ELSE @ + 1]
    /\ last' = [op |-> op, id_equipo |-> id_equipo, id_usuario |-> id_usuario, ret |-> r.ret]
    /\ UNCHANGED <<current_user, usuarios, jerarquias, protocolos, equipo, torneos, pend>>
    /\ UNCHANGED <<avatars, now, config>>

CreateEquipo(nombre_equipo, estado_equipo, id_comandante, maximo_miembros, color_equipo) ==
    /\ seq.equipos < MaxEquipos
    /\ EquipoCall("create_equipo", seq.equipos + 1, id_comandante,
                  create_equipo(nombre_equipo, estado_equipo, id_comandante,
                                maximo_miembros, color_equipo))

UpdateEquipo(id_equipo, nombre_equipo, maximo_miembros, color_equipo, estado_equipo, id_comandante) ==
    EquipoCall("update_equipo", id_equipo, id_comandante,
               update_equipo(id_equipo, nombre_equipo, maximo_miembros, color_equipo,
                             estado_equipo, id_comandante))

AddMember(id_equipo, id_usuario) ==
    EquipoCall("add_member_to_equipo", id_equipo, id_usuario,
               add_member_to_equipo(id_equipo, id_usuario))

RemoveMember(id_equipo, id_usuario) ==
    EquipoCall("remove_member_from_equipo", id_equipo, id_usuario,
               remove_member_from_equipo(id_equipo, id_usuario))

\* add_member_to_equipo called with an id_usuario of the given Python type: the
\* isinstance test refuses whatever is not an int, before anything is read
add_member_to_equipo_typed(id_equipo, id_usuario, type_usuario) ==
    IF type_usuario /= "int" THEN [ret |-> "TypeError", table |-> equipos]
    ELSE add_member_to_equipo(id_equipo, id_usuario)

\* POST /equipos/<id_equipo>/add_member: the form's id_usuario, a text, is
\* passed on as it is; the handler catches nothing, so an exception of the
\* service is its response
EquiposAddMember(id_equipo, id_usuario_a_anadir) ==
    LET r == add_member_to_equipo_typed(id_equipo, id_usuario_a_anadir, "str")
        gate == require_login("equipo.add_member")
        called == gate = "pass" /\ id_usuario_a_anadir \notin {NoneTxt, Txt0}
    IN
    /\ equipos' = IF called THEN r.table ELSE equipos
    /\ last' = [op |-> "equipo.add_member", id_equipo |-> id_equipo,
                form |-> id_usuario_a_anadir,
                response |-> IF gate /= "pass" THEN gate
                             ELSE IF called /\ r.ret /= "True" THEN r.ret
                             ELSE "redirect_manage_members"]
    /\ UNCHANGED <<current_user, usuarios, jerarquias, protocolos, equipo, torneos, pend,
                   seq>>
    /\ UNCHANGED <<avatars, now, config>>

InitEquipo == InitCommon

\* create_equipo arguments <<nombre, estado, id_comandante, maximo, color>>: the
\* well-formed calls, and calls with one field missing or malformed
CreateEquipoArgs ==
    {<<n, "activo", c, m, ColorOk>> : n \in {TxtAce, TxtPadNeo}, c \in EquipoUserArgs,
                                      m \in {None, 0, 1, 2, MaxCapacidad,
                                             MaxCapacidad + 1}}
    \cup {<<n, "activo", 1, 2, ColorOk>> : n \in {Txt0, TxtAb, NoneTxt, <<" ">>}}
    \cup {<<TxtAce, e, 1, 2, ColorOk>> : e \in {"BOGUS", NoneStr}}
    \cup {<<TxtAce, "activo", c, 2, ColorOk>> : c \in {0, None}}
    \cup {<<TxtAce, "activo", 1, 2, col>> : col \in {NoneTxt, ColorBad}}

\* update_equipo arguments <<nombre, maximo, color, estado, id_comandante>>
UpdateEquipoArgs ==
    {<<NoneTxt, m, NoneTxt, NoneStr, c>> : m \in {None, 1, 2, MaxCapacidad},
                                           c \in {None} \cup EquipoUserArgs}
    \cup {<<n, None, NoneTxt, NoneStr, None>> : n \in {TxtAb, <<" ">>}}
    \cup {<<NoneTxt, None, ColorBad, NoneStr, 2>>}
    \cup {<<NoneTxt, None, NoneTxt, e, 2>> : e \in {"activo", "BOGUS"}}

NextEquipo ==
    \/ \E a \in CreateEquipoArgs : CreateEquipo(a[1], a[2], a[3], a[4], a[5])
    \/ \E id \in EquipoIds, a \in UpdateEquipoArgs :
          UpdateEquipo(id, a[1], a[2], a[3], a[4], a[5])
    \/ \E id \in EquipoIds, u \in EquipoUserArgs : AddMember(id, u)
    \/ \E id \in EquipoIds, u \in EquipoUserArgs : RemoveMember(id, u)
    \/ \E id \in EquipoIds, u \in {<<"2">>, <<"9">>, Txt0, NoneTxt} : EquiposAddMember(id, u)
    \/ \E method \in {"GET", "POST"}, email \in {MailRoot, MailNeo},
          password \in LoginPasswords : Login(method, email, password, FALSE)
    \/ Logout

SpecEquipo == InitEquipo /\ [][NextEquipo]_vars

(***************************************************************************)
(* Properties of the equipos services.                                     *)
(***************************************************************************)
\* C4: after any sequence of committed create_equipo, update_equipo,
\* add_member_to_equipo and remove_member_from_equipo calls, every persisted
\* Equipo has its id_comandante among its miembros.
C4_CommanderInRoster ==
    \A id \in DOMAIN equipos : es_miembro(equipos[id], equipos[id].id_comandante)

\* update_equipo changed the commander of a team to a user it had to enrol
C4_Witness ==
    /\ last.op = "update_equipo"
    /\ last.ret = "Equipo"
    /\ last.id_usuario /= None
    /\ equipos[last.id_equipo].id_comandante = last.id_usuario
    /\ equipos[last.id_equipo].miembros[1] /= last.id_usuario
    /\ es_miembro(equipos[last.id_equipo], last.id_usuario)

\* C8: remove_member_from_equipo raises ValueError whenever id_usuario is the
\* team's current id_comandante and leaves the team's miembros unchanged, although
\* Equipo.remover_miembro itself would remove that user.
C8_CommanderNotRemovable ==
    [][(/\ last'.op = "remove_member_from_equipo"
        /\ last'.id_equipo \in DOMAIN equipos
        /\ equipos[last'.id_equipo].id_comandante = last'.id_usuario)
       => (/\ last'.ret = "ValueError"
           /\ equipos' = equipos
           /\ remover_miembro(equipos[last'.id_equipo], last'.id_usuario).ret = "True")]_vars

\* the removal of a commander was refused on a team that has other members
C8_Witness ==
    /\ last.op = "remove_member_from_equipo"
    /\ last.ret = "ValueError"
    /\ last.id_equipo \in DOMAIN equipos
    /\ equipos[last.id_equipo].id_comandante = last.id_usuario
    /\ miembros_count(equipos[last.id_equipo]) >= 2


(***************************************************************************)
(* Form text that is parsed: int() and datetime.fromisoformat().           *)
(* A date is the text of a two digit day, "01", "02", ...; the datetime    *)
(* it denotes is the day number.                                           *)
(***************************************************************************)
Digits == <<"0", "1", "2", "3", "4", "5", "6", "7", "8", "9">>

IsDigit(c) == \E d \in 1..10 : Digits[d] = c

DigitVal(c) == (CHOOSE d \in 1..10 : Digits[d] = c) - 1

IsNumeric(t) == t /= NoneTxt /\ t /= <<>> /\ \A i \in 1..Len(t) : IsDigit(t[i])

RECURSIVE int(_)
\* int(t) of a numeric text
int(t) == IF Len(t) = 1 THEN DigitVal(t[1])
          ELSE 10 * int(SubSeq(t, 1, Len(t) - 1)) + DigitVal(t[Len(t)])

\* datetime.fromisoformat accepts the text
IsIsoDate(t) == IsNumeric(t) /\ Len(t) = 2 /\ int(t) >= 1

fromisoformat(t) == int(t)

\* datetime.isoformat of a stored date
isoformat(d) == <<Digits[(d \div 10) + 1], Digits[(d % 10) + 1]>>

(***************************************************************************)
(* services.torneos_services                                               *)
(* A Torneo is [nombre_torneo, nivel_acceso_min, fecha_inicio, fecha_fin]. *)
(* torneos holds the committed rows; pend holds, per id, the row as the    *)
(* session sees it while it differs from the committed one (assigned or    *)
(* flushed, not committed).  A service returns [ret, table, pend].         *)
(***************************************************************************)
\* the juegos that exist
JuegoIds == {1}

TorneoRowOk_le(row) ==
    /\ Len(row.nombre_torneo) >= 3
    /\ row.nivel_acceso_min >= 0
    /\ row.nivel_acceso_min <= 100
    /\ (row.fecha_inicio = None \/ row.fecha_fin = None \/ row.fecha_inicio <= row.fecha_fin)
    /\ ForeignKeysEnforced => row.id_juego \in JuegoIds

\* CHECK constraints of table torneos
TorneoRowOk(row) ==
    /\ Len(row.nombre_torneo) >= 3
    /\ row.nivel_acceso_min >= 0
    /\ row.nivel_acceso_min <= 100
    /\ (row.fecha_inicio = None \/ row.fecha_fin = None \/ row.fecha_inicio < row.fecha_fin)
    /\ ForeignKeysEnforced => row.id_juego \in JuegoIds

\* every row the session would write satisfies the constraints
FlushOk(p) == \A id \in DOMAIN p : TorneoRowOk(p[id])

\* the committed table after the session's rows are written
Flushed(p) == [id \in DOMAIN torneos \cup DOMAIN p |-> IF id \in DOMAIN p THEN p[id] ELSE torneos[id]]

create_torneo(nombre_torneo, nivel_acceso_min, fecha_inicio, fecha_fin, id_juego) ==
    IF \E f \in {nombre_torneo, nivel_acceso_min, fecha_inicio, fecha_fin, id_juego} :
           f = NoneTxt \/ f = Txt0
    THEN [ret |-> "ValueError", table |-> torneos, pend |-> pend]
    ELSE IF ~IsIsoDate(fecha_inicio) \/ ~IsIsoDate(fecha_fin)
    THEN [ret |-> "ValueError", table |-> torneos, pend |-> pend]
    ELSE IF ~IsNumeric(nivel_acceso_min) \/ ~IsNumeric(id_juego)
    THEN [ret |-> "ValueError", table |-> torneos, pend |-> pend]
    ELSE LET nuevo == [nombre_torneo |-> nombre_torneo,
                       nivel_acceso_min |-> int(nivel_acceso_min),
                       fecha_inicio |-> fromisoformat(fecha_inicio),
                       fecha_fin |-> fromisoformat(fecha_fin),
                       id_juego |-> int(id_juego)]
             p == Put(pend, seq.torneos + 1, nuevo)
         IN IF ~FlushOk(p)
            THEN [ret |-> "SQLAlchemyError", table |-> torneos, pend |-> EmptyMap]
            ELSE [ret |-> "Torneo", table |-> Flushed(p), pend |-> EmptyMap]

\* the attribute assignments of update_torneo, in source order; the first
\* conversion that fails stops them and keeps what was assigned before
TorneoAssign(row, nombre_torneo, nivel_acceso_min, fecha_inicio, fecha_fin, id_juego) ==
    LET r1 == IF nombre_torneo /= NoneTxt THEN [row EXCEPT !.nombre_torneo = nombre_torneo]
              ELSE row
        ok2 == nivel_acceso_min = NoneTxt \/ IsNumeric(nivel_acceso_min)
        r2 == IF nivel_acceso_min /= NoneTxt /\ ok2
              THEN [r1 EXCEPT !.nivel_acceso_min = int(nivel_acceso_min)] ELSE r1
        ok3 == fecha_inicio = NoneTxt \/ IsIsoDate(fecha_inicio)
        r3 == IF fecha_inicio /= NoneTxt /\ ok3
              THEN [r2 EXCEPT !.fecha_inicio = fromisoformat(fecha_inicio)] ELSE r2
        ok4 == fecha_fin = NoneTxt \/ IsIsoDate(fecha_fin)
        r4 == IF fecha_fin /= NoneTxt /\ ok4
              THEN [r3 EXCEPT !.fecha_fin = fromisoformat(fecha_fin)] ELSE r3
        ok5 == id_juego = NoneTxt \/ IsNumeric(id_juego)
        r5 == IF id_juego /= NoneTxt /\ ok5
              THEN [r4 EXCEPT !.id_juego = int(id_juego)] ELSE r4
    IN IF ~ok2 THEN [ok |-> FALSE, row |-> r1]
       ELSE IF ~ok3 THEN [ok |-> FALSE, row |-> r2]
       ELSE IF ~ok4 THEN [ok |-> FALSE, row |-> r3]
       ELSE IF ~ok5 THEN [ok |-> FALSE, row |-> r4]
       ELSE [ok |-> TRUE, row |-> r5]

\* the session's rows after an assignment: an object equal to its committed row
\* is not dirty
Dirty(p, id, row) == IF id \in DOMAIN torneos /\ torneos[id] = row THEN Del(p, id)
                     ELSE Put(p, id, row)

update_torneo(id_torneo, nombre_torneo, nivel_acceso_min, fecha_inicio, fecha_fin, id_juego) ==
    IF ~FlushOk(pend)
    THEN [ret |-> "SQLAlchemyError", table |-> torneos, pend |-> EmptyMap]
    ELSE IF id_torneo \notin DOMAIN torneos
    THEN [ret |-> "ValueError", table |-> torneos, pend |-> pend]
    ELSE LET cur == IF id_torneo \in DOMAIN pend THEN pend[id_torneo] ELSE torneos[id_torneo]
             a == TorneoAssign(cur, nombre_torneo, nivel_acceso_min, fecha_inicio, fecha_fin,
                               id_juego)
             p == Dirty(pend, id_torneo, a.row)
         IN IF ~a.ok THEN [ret |-> "ValueError", table |-> torneos, pend |-> p]
            ELSE IF ~FlushOk(p)
            THEN [ret |-> "SQLAlchemyError", table |-> torneos, pend |-> EmptyMap]
            ELSE [ret |-> "Torneo", table |-> Flushed(p), pend |-> EmptyMap]

(***************************************************************************)
(* Specification of the torneos services.                                  *)
(***************************************************************************)
TorneoIds == 1..MaxTorneos

FechaTxts == {isoformat(d) : d \in 1..MaxFecha}

\* last keeps the submitted values of a create_torneo call, which C9 compares
\* with what is read back, and the id_juego submitted to update_torneo
TorneoCall(op, id_torneo, submitted, r) ==
    /\ torneos' = r.table
    /\ pend' = r.pend
    /\ seq' = [seq EXCEPT !.torneos = IF DOMAIN r.table \subseteq DOMAIN torneos
                                      THEN @ ELSE @ + 1]
    /\ last' = [op |-> op, id_torneo |-> id_torneo, submitted |-> submitted, ret |-> r.ret]
    /\ UNCHANGED <<current_user, usuarios, jerarquias, protocolos, equipos, equipo>>
    /\ UNCHANGED <<avatars, now, config>>

CreateTorneo(nombre_torneo, nivel_acceso_min, fecha_inicio, fecha_fin, id_juego) ==
    /\ seq.torneos < MaxTorneos
    /\ TorneoCall("create_torneo", seq.torneos + 1,
                  [nombre_torneo |-> nombre_torneo, nivel_acceso_min |-> nivel_acceso_min,
                   fecha_inicio |-> fecha_inicio, fecha_fin |-> fecha_fin,
                   id_juego |-> id_juego],
                  create_torneo(nombre_torneo, nivel_acceso_min, fecha_inicio, fecha_fin,
                                id_juego))

UpdateTorneo(id_torneo, nombre_torneo, nivel_acceso_min, fecha_inicio, fecha_fin, id_juego) ==
    TorneoCall("update_torneo", id_torneo, [id_juego |-> id_juego],
               update_torneo(id_torneo, nombre_torneo, nivel_acceso_min, fecha_inicio,
                             fecha_fin, id_juego))

\* the end of a request discards the session and what it had not committed
Teardown ==
    /\ pend /= EmptyMap
    /\ pend' = EmptyMap
    /\ last' = [op |-> "teardown"]
    /\ UNCHANGED <<current_user, usuarios, jerarquias, protocolos, equipos, equipo,
                   torneos, seq>>
    /\ UNCHANGED <<avatars, now, config>>

\* <<nombre, nivel, fecha_inicio, fecha_fin, id_juego>>
CreateTorneoArgs ==
    {<<TxtAce, <<"7">>, i, f, <<"1">>>> : i, f \in FechaTxts \cup {<<"x">>}}
    \cup {<<n, <<"7">>, isoformat(1), isoformat(2), <<"1">>>> : n \in {NoneTxt, Txt0, TxtAb}}
    \cup {<<TxtAce, v, isoformat(1), isoformat(2), <<"1">>>> : v \in {NoneTxt, <<"x">>, <<"0">>}}
    \cup {<<TxtAce, <<"7">>, NoneTxt, isoformat(2), <<"1">>>>,
          <<TxtAce, <<"7">>, isoformat(1), Txt0, <<"1">>>>}
    \cup {<<TxtAce, <<"7">>, isoformat(1), isoformat(2), j>> : j \in {NoneTxt, <<"x">>, <<"9">>}}

UpdateTorneoArgs ==
    {<<NoneTxt, NoneTxt, i, f, NoneTxt>> : i \in FechaTxts \cup {<<"x">>}, f \in {NoneTxt, <<"x">>}}
    \cup {<<NoneTxt, NoneTxt, NoneTxt, f, NoneTxt>> : f \in FechaTxts \cup {NoneTxt}}
    \cup {<<TxtAb, v, NoneTxt, NoneTxt, NoneTxt>> : v \in {NoneTxt, <<"x">>, <<"7">>}}
    \cup {<<NoneTxt, NoneTxt, i, NoneTxt, <<"x">>>> : i \in {NoneTxt, isoformat(1)}}
    \cup {<<NoneTxt, NoneTxt, NoneTxt, NoneTxt, j>> : j \in {<<"1">>, <<"9">>}}

InitTorneo == InitCommon

NextTorneo ==
    \/ \E a \in CreateTorneoArgs : CreateTorneo(a[1], a[2], a[3], a[4], a[5])
    \/ \E id \in TorneoIds, a \in UpdateTorneoArgs :
          UpdateTorneo(id, a[1], a[2], a[3], a[4], a[5])
    \/ Teardown

SpecTorneo == InitTorneo /\ [][NextTorneo]_vars


(***************************************************************************)
(* C9: date ordering of torneos.                                           *)
(***************************************************************************)
\* every committed Torneo with both dates starts before it ends
DatesOrdered ==
    \A id \in DOMAIN torneos :
        (torneos[id].fecha_inicio /= None /\ torneos[id].fecha_fin /= None)
            => torneos[id].fecha_inicio < torneos[id].fecha_fin

\* the last call was create_torneo with every field acceptable and
\* fecha_inicio < fecha_fin
CreateOrdered ==
    /\ last.op = "create_torneo"
    /\ Len(last.submitted.nombre_torneo) >= 3
    /\ IsNumeric(last.submitted.nivel_acceso_min)
    /\ int(last.submitted.nivel_acceso_min) <= 100
    /\ IsIsoDate(last.submitted.fecha_inicio)
    /\ IsIsoDate(last.submitted.fecha_fin)
    /\ fromisoformat(last.submitted.fecha_inicio) < fromisoformat(last.submitted.fecha_fin)
    /\ IsNumeric(last.submitted.id_juego)
    /\ int(last.submitted.id_juego) \in JuegoIds

\* the Torneo of the last call is committed and its dates read back as submitted
ReadsBack ==
    /\ last.ret = "Torneo"
    /\ last.id_torneo \in DOMAIN torneos
    /\ isoformat(torneos[last.id_torneo].fecha_inicio) = last.submitted.fecha_inicio
    /\ isoformat(torneos[last.id_torneo].fecha_fin) = last.submitted.fecha_fin

\* C9: create_torneo with fecha_inicio < fecha_fin persists a Torneo whose dates
\* read back equal to the submitted ones, and every committed Torneo with both
\* dates has fecha_inicio < fecha_fin.
C9_DateOrdering == DatesOrdered /\ (CreateOrdered => ReadsBack)

\* C9, failing case: create_torneo with acceptable fields and ordered dates is
\* refused because an earlier update_torneo left the session with an assignment
\* that cannot be written.
C9_Witness == CreateOrdered /\ last.ret = "SQLAlchemyError"

\* What holds of C9 in every behaviour: committed dates are ordered, a Torneo
\* that create_torneo returns reads back as submitted, and a call that does not
\* return a Torneo commits nothing.
C9_Holds ==
    /\ [](DatesOrdered /\ ((last.op = "create_torneo" /\ last.ret = "Torneo") => ReadsBack))
    /\ [][(last'.op \in {"create_torneo", "update_torneo"} /\ last'.ret /= "Torneo")
             => torneos' = torneos]_vars
    /\ [][(CreateOrdered' /\ pend = EmptyMap) => ReadsBack']_vars


(***************************************************************************)
(* services.usuarios_services.create_usuario and the route                 *)
(* POST /usuarios/create.  Form values are texts; a missing one is None.   *)
(***************************************************************************)
\* constraints of table usuarios on a new row
UsuarioRowOk(row, table) ==
    /\ Len(row.alias_usuario) >= 3
    /\ HasAt(row.email_usuario)
    /\ StoredLen(row.password_usuario) >= 60
    /\ \A u \in DOMAIN table : /\ table[u].alias_usuario /= row.alias_usuario
                               /\ table[u].email_usuario /= row.email_usuario
    /\ ForeignKeysEnforced => row.id_jerarquia \in DOMAIN jerarquias

create_usuario_plain(alias_usuario, email_usuario, password, foto_usuario, id_jerarquia) ==
    IF \E f \in {alias_usuario, email_usuario, password, id_jerarquia} :
           f = NoneTxt \/ f = Txt0
    THEN [exc |-> "ValueError", table |-> usuarios]
    ELSE IF ~HasAt(email_usuario) THEN [exc |-> "ValueError", table |-> usuarios]
    ELSE IF ~IsNumeric(id_jerarquia) THEN [exc |-> "TypeError", table |-> usuarios]
    ELSE LET nuevo_usuario == Usuario(alias_usuario, email_usuario, password,
                                      foto_usuario, int(id_jerarquia))
         IN IF ~UsuarioRowOk(nuevo_usuario, usuarios)
            THEN [exc |-> "SQLAlchemyError", table |-> usuarios]
            ELSE [exc |-> NoneStr, table |-> Put(usuarios, seq.usuarios + 1, nuevo_usuario)]

create_usuario(alias_usuario, email_usuario, password, foto_usuario, id_jerarquia) ==
    IF \E f \in {alias_usuario, email_usuario, password, id_jerarquia} :
           f = NoneTxt \/ f = Txt0
    THEN [exc |-> "ValueError", table |-> usuarios]
    ELSE IF ~HasAt(email_usuario) THEN [exc |-> "ValueError", table |-> usuarios]
    ELSE IF ~IsNumeric(id_jerarquia) THEN [exc |-> "TypeError", table |-> usuarios]
    ELSE LET nuevo_usuario == Usuario(alias_usuario, email_usuario,
                                      generate_password_hash(password),
                                      foto_usuario, int(id_jerarquia))
         IN IF ~UsuarioRowOk(nuevo_usuario, usuarios)
            THEN [exc |-> "SQLAlchemyError", table |-> usuarios]
            ELSE [exc |-> NoneStr, table |-> Put(usuarios, seq.usuarios + 1, nuevo_usuario)]

\* usuarios_services.get_all_usuarios
get_all_usuarios == {usuarios[u] : u \in DOMAIN usuarios}

TxtUrl == <<"h", "t", "t", "p">>

MaxNow == 1

RECURSIVE str(_)
\* str(n) of a non-negative int
str(n) == IF n < 10 THEN <<Digits[n + 1]>> ELSE str(n \div 10) \o <<Digits[(n % 10) + 1]>>

RECURSIVE split(_)
\* str.split(): the words between runs of spaces
split(t) ==
    IF t = <<>> THEN <<>>
    ELSE IF Head(t) = " " THEN split(Tail(t))
    ELSE LET n == IF \E i \in 1..Len(t) : t[i] = " "
                  THEN (CHOOSE i \in 1..Len(t) : t[i] = " " /\ \A k \in 1..(i - 1) : t[k] /= " ") - 1
                  ELSE Len(t)
         IN <<SubSeq(t, 1, n)>> \o split(SubSeq(t, n + 1, Len(t)))

RECURSIVE join(_, _)
\* sep.join(words)
join(sep, words) ==
    IF words = <<>> THEN <<>>
    ELSE IF Len(words) = 1 THEN words[1]
    ELSE words[1] \o sep \o join(sep, Tail(words))

\* the characters werkzeug keeps in a file name: [A-Za-z0-9_.-]
FilenameChars == Range(Digits) \cup {"a", "b", "_", ".", "-"}

\* str.strip("._")
RECURSIVE StripDots(_)
StripDots(t) ==
    IF t = <<>> THEN t
    ELSE IF Head(t) \in {".", "_"} THEN StripDots(Tail(t))
    ELSE IF t[Len(t)] \in {".", "_"} THEN StripDots(SubSeq(t, 1, Len(t) - 1))
    ELSE t

\* werkzeug.utils.secure_filename on ASCII names: path separators become
\* spaces, the words are joined by "_", other characters are dropped, leading
\* and trailing "." and "_" are stripped
secure_filename(filename) ==
    LET spaced == [i \in 1..Len(filename) |-> IF filename[i] = "/" THEN " " ELSE filename[i]]
        joined == join(<<"_">>, split(spaced))
    IN StripDots(SelectSeq(joined, LAMBDA c : c \in FilenameChars))

AvatarPrefix == <<"a", "v", "a", "t", "a", "r", "_">>

\* f"avatar_{int(time.time())}_{filename}" of the create handler
CreateUniqueFilename(filename) == AvatarPrefix \o str(now) \o <<"_">> \o secure_filename(filename)

\* f"avatar_{id_usuario}_{int(time.time())}_{filename}" of the update handler
UpdateUniqueFilename(id_usuario, filename) ==
    AvatarPrefix \o str(id_usuario) \o <<"_">> \o str(now) \o <<"_">> \o secure_filename(filename)

\* avatar_file and avatar_file.filename != ''
Uploaded(avatar_file) == avatar_file /= NoneTxt /\ avatar_file /= Txt0

\* avatar_file.save(save_path): the file of this request is now at the path
Save(unique_filename, avatar_file) ==
    Put(avatars, unique_filename, [filename |-> avatar_file, by |-> current_user, at |-> now])

\* foto_final: the uploaded file's name has priority over the avatar_url field
\* (NoneTxt when the field was not sent)
FotoFinal(avatar_url, avatar_file, unique_filename) ==
    IF Uploaded(avatar_file) THEN unique_filename ELSE avatar_url

\* POST /usuarios/create
UsuariosCreate(alias_usuario, email_usuario, password_usuario, id_jerarquia, avatar_url, avatar_file) ==
    LET form == [alias_usuario |-> alias_usuario, email_usuario |-> email_usuario,
                 password_usuario |-> password_usuario, id_jerarquia |-> id_jerarquia]
        unique_filename == CreateUniqueFilename(avatar_file)
        r == create_usuario(alias_usuario, email_usuario, password_usuario,
                            FotoFinal(avatar_url, avatar_file, unique_filename), id_jerarquia)
    IN
    /\ seq.usuarios < SeedSeq.usuarios + MaxNuevosUsuarios
    /\ IF require_login("usuario.create") /= "pass"
       THEN /\ last' = [op |-> "usuario.create", form |-> form, saved |-> NoneTxt,
                        response |-> require_login("usuario.create")]
            /\ UNCHANGED <<usuarios, seq, avatars>>
       ELSE /\ avatars' = IF Uploaded(avatar_file) THEN Save(unique_filename, avatar_file)
                          ELSE avatars
            /\ usuarios' = r.table
            /\ seq' = [seq EXCEPT !.usuarios = IF r.exc = NoneStr THEN @ + 1 ELSE @]
            /\ last' = [op |-> "usuario.create", form |-> form,
                        saved |-> IF Uploaded(avatar_file) THEN unique_filename ELSE NoneTxt,
                        response |-> IF r.exc = NoneStr THEN "redirect_usuario_index"
                                     ELSE r.exc]
    /\ UNCHANGED <<current_user, jerarquias, protocolos, equipos, equipo, torneos, pend, now,
                   config>>

update_usuario(id_usuario, alias_usuario, email_usuario, password, foto_usuario, id_jerarquia) ==
    IF get_usuarios_by_id(id_usuario) = None THEN [exc |-> "ValueError", table |-> usuarios]
    ELSE IF email_usuario /= NoneTxt /\ ~HasAt(email_usuario)
    THEN [exc |-> "TypeError", table |-> usuarios]
    ELSE IF id_jerarquia /= NoneTxt /\ ~IsNumeric(id_jerarquia)
    THEN [exc |-> "TypeError", table |-> usuarios]
    ELSE LET old == usuarios[id_usuario]
             row == [alias_usuario |-> IF alias_usuario /= NoneTxt THEN alias_usuario
                                       ELSE old.alias_usuario,
                     email_usuario |-> IF email_usuario /= NoneTxt THEN email_usuario
                                       ELSE old.email_usuario,
                     password_usuario |-> IF password /= NoneTxt /\ password /= Txt0
                                          THEN generate_password_hash(password)
                                          ELSE old.password_usuario,
                     foto_usuario |-> IF foto_usuario /= NoneTxt THEN foto_usuario
                                      ELSE old.foto_usuario,
                     id_jerarquia |-> IF id_jerarquia /= NoneTxt THEN int(id_jerarquia)
                                      ELSE old.id_jerarquia]
         IN IF ~UsuarioRowOk(row, Del(usuarios, id_usuario))
            THEN [exc |-> "SQLAlchemyError", table |-> usuarios]
            ELSE [exc |-> NoneStr, table |-> Put(usuarios, id_usuario, row)]

\* POST /usuarios/update/<int:id_usuario>
UsuariosUpdate(id_usuario, alias_usuario, email_usuario, password_usuario, id_jerarquia, avatar_url, avatar_file) ==
    LET form == [alias_usuario |-> alias_usuario, email_usuario |-> email_usuario,
                 password_usuario |-> password_usuario, id_jerarquia |-> id_jerarquia]
        unique_filename == UpdateUniqueFilename(id_usuario, avatar_file)
        r == update_usuario(id_usuario, alias_usuario, email_usuario, password_usuario,
                            FotoFinal(avatar_url, avatar_file, unique_filename), id_jerarquia)
        record(saved, response) ==
            [op |-> "usuario.update", id_usuario |-> id_usuario, form |-> form,
             saved |-> saved, response |-> response]
    IN
    /\ IF require_login("usuario.update") /= "pass"
       THEN /\ last' = record(NoneTxt, require_login("usuario.update"))
            /\ UNCHANGED <<usuarios, avatars>>
       ELSE IF get_usuarios_by_id(id_usuario) = None
       THEN /\ last' = record(NoneTxt, "ValueError")
            /\ UNCHANGED <<usuarios, avatars>>
       ELSE /\ avatars' = IF Uploaded(avatar_file) THEN Save(unique_filename, avatar_file)
                          ELSE avatars
            /\ usuarios' = r.table
            /\ last' = record(IF Uploaded(avatar_file) THEN unique_filename ELSE NoneTxt,
                              IF r.exc = NoneStr THEN "redirect_usuario_index" ELSE r.exc)
    /\ UNCHANGED <<current_user, jerarquias, protocolos, equipos, equipo, torneos, pend, seq,
                   now, config>>

\* usuarios_services.delete_usuario; a commander's team keeps the delete from
\* being written (id_comandante is NOT NULL), memberships go with the user
delete_usuario(id_usuario) ==
    IF get_usuarios_by_id(id_usuario) = None
    THEN [exc |-> "ValueError", table |-> usuarios, equipos |-> equipos]
    ELSE IF \E e \in DOMAIN equipos : equipos[e].id_comandante = id_usuario
    THEN [exc |-> "SQLAlchemyError", table |-> usuarios, equipos |-> equipos]
    ELSE [exc |-> NoneStr, table |-> Del(usuarios, id_usuario),
          equipos |-> [e \in DOMAIN equipos |->
                         [equipos[e] EXCEPT !.miembros = SelectSeq(@, LAMBDA u : u /= id_usuario)]]]

\* GET /usuarios/delete/<int:id_usuario>
UsuariosDelete(id_usuario) ==
    LET r == delete_usuario(id_usuario)
        record(response) == [op |-> "usuario.delete", id_usuario |-> id_usuario,
                             response |-> response]
    IN
    /\ IF require_login("usuario.delete") /= "pass"
       THEN /\ last' = record(require_login("usuario.delete"))
            /\ UNCHANGED <<usuarios, equipos>>
       ELSE /\ usuarios' = r.table
            /\ equipos' = r.equipos
            /\ last' = record(IF r.exc = NoneStr THEN "redirect_usuario_index" ELSE r.exc)
    /\ UNCHANGED <<current_user, jerarquias, protocolos, equipo, torneos, pend, seq, avatars,
                   now, config>>

\* a second of wall-clock time passes
Tick ==
    /\ now < MaxNow
    /\ now' = now + 1
    /\ last' = [op |-> "tick"]
    /\ UNCHANGED <<current_user, usuarios, jerarquias, protocolos, equipos, equipo, torneos,
                   pend, seq, avatars, config>>

(***************************************************************************)
(* Specification of user creation behind the login gate.                   *)
(***************************************************************************)
\* <<alias, email, password, id_jerarquia>>
UsuariosCreateArgs ==
    {<<a, e, <<"p", "w">>, j>> : a \in {TxtAce, TxtNeo}, e \in {MailAce, MailNeo},
                                 j \in {<<"1">>, <<"4">>}}
    \cup {<<a, MailAce, <<"p", "w">>, <<"1">>>> : a \in {NoneTxt, Txt0, TxtAb, TxtRoot}}
    \cup {<<TxtAce, e, <<"p", "w">>, <<"1">>>> : e \in {NoneTxt, MailBad, MailRoot}}
    \cup {<<TxtAce, MailAce, w, <<"1">>>> : w \in {NoneTxt, Txt0}}
    \cup {<<TxtAce, MailAce, <<"p", "w">>, j>> : j \in {NoneTxt, <<"x">>, <<"9">>, <<"0">>}}

InitUsuario == InitCommon

NextUsuario ==
    \/ \E method \in {"GET", "POST"}, email \in {MailRoot, MailNeo},
          password \in LoginPasswords : Login(method, email, password, FALSE)
    \/ Logout
    \/ \E a \in UsuariosCreateArgs,
          avatar \in {<<NoneTxt, NoneTxt>>, <<TxtUrl, NoneTxt>>, <<TxtUrl, <<"a">>>>} :
          UsuariosCreate(a[1], a[2], a[3], a[4], avatar[1], avatar[2])

SpecUsuario == InitUsuario /\ [][NextUsuario]_vars

\* the request of the last step: a logged-in user, an alias of at least 3
\* characters, an email with "@", a non-empty password, the id of an existing
\* Jerarquia, alias and email not in use
ValidCreateRequest ==
    /\ last'.op = "usuario.create"
    /\ is_authenticated
    /\ last'.form.alias_usuario /= NoneTxt
    /\ Len(last'.form.alias_usuario) >= 3
    /\ HasAt(last'.form.email_usuario)
    /\ last'.form.password_usuario \notin {NoneTxt, Txt0}
    /\ IsNumeric(last'.form.id_jerarquia)
    /\ int(last'.form.id_jerarquia) \in DOMAIN jerarquias
    /\ \A u \in DOMAIN usuarios :
          /\ usuarios[u].alias_usuario /= last'.form.alias_usuario
          /\ usuarios[u].email_usuario /= last'.form.email_usuario

\* exactly one Usuario was added, and it carries the form's alias, email and
\* jerarquia with a password that is hashed, not the plaintext
OneUsuarioAdded ==
    \E id \in DOMAIN usuarios' \ DOMAIN usuarios :
        /\ DOMAIN usuarios' = DOMAIN usuarios \cup {id}
        /\ \A u \in DOMAIN usuarios : usuarios'[u] = usuarios[u]
        /\ usuarios'[id].alias_usuario = last'.form.alias_usuario
        /\ usuarios'[id].email_usuario = last'.form.email_usuario
        /\ usuarios'[id].id_jerarquia = int(last'.form.id_jerarquia)
        /\ usuarios'[id].password_usuario /= last'.form.password_usuario
        /\ check_password_hash(usuarios'[id].password_usuario, last'.form.password_usuario)

\* C10: a valid POST /usuarios/create by a logged-in user is answered with a
\* redirect to the usuarios index and adds exactly one Usuario with the
\* submitted alias, email and jerarquia and a hashed password.
C10_UsuarioCreated ==
    [][ValidCreateRequest => (last'.response = "redirect_usuario_index" /\ OneUsuarioAdded)]_vars

\* C10: a user created this way is listed by get_all_usuarios, with the alias
\* Ace, the email of the form and a stored password that verifies.
C10_Witness ==
    /\ last.op = "usuario.create"
    /\ last.response = "redirect_usuario_index"
    /\ last.form.alias_usuario = TxtAce
    /\ \E u \in get_all_usuarios :
          /\ u.alias_usuario = TxtAce
          /\ u.email_usuario = last.form.email_usuario
          /\ check_password_hash(u.password_usuario, last.form.password_usuario)
    /\ Cardinality(get_all_usuarios) = Cardinality(DOMAIN SeedUsuarios) + 2


(***************************************************************************)
(* services.dashboard_service and config.dashboard_config.                 *)
(* A path is the text of its characters.  Menu items and alerts keep the   *)
(* keys the service reads; the display texts of an alert (title, subtitle) *)
(* are left out, and non-ASCII letters of a label are written in ASCII.    *)
(***************************************************************************)
MaxPathLen == 4

MaxItems == 3

RECURSIVE rstrip(_, _)
\* str.rstrip(c): every trailing c removed
rstrip(t, c) == IF t /= <<>> /\ t[Len(t)] = c THEN rstrip(SubSeq(t, 1, Len(t) - 1), c) ELSE t

\* a path that is not a str is written NoneTxt
_normalize_path(path) ==
    IF path = NoneTxt THEN <<"/">>
    ELSE IF Len(path) > 1 THEN rstrip(path, "/") ELSE path

MENU_ITEMS == <<
    [icon_main |-> "dashboard", name_main |-> "MAINFRAME_HUB", title_section |-> "OPERATIONS_COMMAND",
     url |-> <<"/">>, name_breadcrumbs |-> "NEXUS_OVERWATCH", min_level |-> 80],
    [icon_main |-> "group", name_main |-> "SUBJECT_PROFILES", title_section |-> "OPERATIONS_COMMAND",
     url |-> <<"/", "u", "s", "u", "a", "r", "i", "o", "s">>, name_breadcrumbs |-> "FIRMAS_NEURALES", min_level |-> 5],
    [icon_main |-> "shield_person", name_main |-> "TACTICAL_SQUADS", title_section |-> "OPERATIONS_COMMAND",
     url |-> <<"/", "e", "q", "u", "i", "p", "o", "s">>, name_breadcrumbs |-> "ESCUADRONES", min_level |-> 5],
    [icon_main |-> "emoji_events", name_main |-> "ARENA_OPS", title_section |-> "ARENA_INFRASTRUCTURE",
     url |-> <<"/", "t", "o", "r", "n", "e", "o", "s">>, name_breadcrumbs |-> "INSTANCIAS", min_level |-> 0],
    [icon_main |-> "videogame_asset", name_main |-> "VIRTUAL_SOFTWARE", title_section |-> "ARENA_INFRASTRUCTURE",
     url |-> <<"/", "j", "u", "e", "g", "o", "s">>, name_breadcrumbs |-> "SOFTWARE_VIRTUAL", min_level |-> 0],
    [icon_main |-> "verified_user", name_main |-> "CLEARANCE_LVLS", title_section |-> "SYSTEM_KERNEL",
     url |-> <<"/", "j", "e", "r", "a", "r", "q", "u", "i", "a", "s">>, name_breadcrumbs |-> "Niveles_Acceso", min_level |-> 80],
    [icon_main |-> "settings_input_component", name_main |-> "CORE_PROTOCOLS", title_section |-> "SYSTEM_KERNEL",
     url |-> <<"/", "p", "r", "o", "t", "o", "c", "o", "l", "o", "s">>, name_breadcrumbs |-> "REGLAS_BASE", min_level |-> 80],
    [icon_main |-> "genetics", name_main |-> "NEURAL_ARCHETYPES", title_section |-> "SYSTEM_KERNEL",
     url |-> <<"/", "r", "o", "l", "e", "s">>, name_breadcrumbs |-> "Roles_de_combate", min_level |-> 80],
    [icon_main |-> "receipt_long", name_main |-> "REGISTER_ACTION", title_section |-> "DATA_TELEMETRY",
     url |-> <<"/", "r", "e", "g", "i", "s", "t", "r", "o", "s">>, name_breadcrumbs |-> "BITACORAS", min_level |-> 20],
    [icon_main |-> "monitoring", name_main |-> "PERFORMANCE_DATA", title_section |-> "DATA_TELEMETRY",
     url |-> <<"/", "r", "e", "s", "u", "l", "t", "a", "d", "o", "s">>, name_breadcrumbs |-> "ANALYTICS", min_level |-> 50]
>>

ALERTS_DATA == <<
    [icon |-> "fingerprint", url_info |-> <<"/", "u", "s", "u", "a", "r", "i", "o", "s">>, btn_info |-> "VINCULAR_SUJETO",
     access |-> {"ADMIN", "MOD_SISTEMA", "MOD_TACTICO", "MOD_ARENA", "PARTICIPANTE"}],
    [icon |-> "account_tree", url_info |-> <<"/", "j", "e", "r", "a", "r", "q", "u", "i", "a", "s">>, btn_info |-> "INYECTAR_NIVEL_ACCESO",
     access |-> {"ADMIN", "MOD_SISTEMA"}],
    [icon |-> "psychology", url_info |-> <<"/", "r", "o", "l", "e", "s">>, btn_info |-> "INYECTAR_PERFIL",
     access |-> {"ADMIN", "MOD_SISTEMA"}],
    [icon |-> "terminal", url_info |-> <<"/", "p", "r", "o", "t", "o", "c", "o", "l", "o", "s">>, btn_info |-> "INYECTAR_COMANDO",
     access |-> {"ADMIN"}],
    [icon |-> "extension", url_info |-> <<"/", "j", "u", "e", "g", "o", "s">>, btn_info |-> "INYECTAR_MOTOR",
     access |-> {"ADMIN", "MOD_ARENA"}],
    [icon |-> "military_tech", url_info |-> <<"/", "t", "o", "r", "n", "e", "o", "s">>, btn_info |-> "ABRIR_OPERACION",
     access |-> {"ADMIN", "MOD_ARENA"}],
    [icon |-> "groups_3", url_info |-> <<"/", "e", "q", "u", "i", "p", "o", "s">>, btn_info |-> "FORJAR_CLUSTER",
     access |-> {"ADMIN", "MOD_TACTICO"}],
    [icon |-> "History_Edu", url_info |-> <<"/", "r", "e", "g", "i", "s", "t", "r", "o", "s">>, btn_info |-> "TRAZAR_SESION",
     access |-> {"ADMIN"}],
    [icon |-> "monitoring", url_info |-> <<"/", "r", "e", "s", "u", "l", "t", "a", "d", "o", "s">>, btn_info |-> "EXPORTAR_LOGS",
     access |-> {"ADMIN"}]
>>

DEFAULT_PAGE_TITLE == "MAINFRAME_HUB"

DEFAULT_PAGE_DATA == "COMMAND_CENTER"

DEFAULT_MIN_ACCESS_LEVEL == MOD_SISTEMA

\* item.copy(): the copy has no "active" key yet
ItemCopy(item) ==
    [icon_main |-> item.icon_main, name_main |-> item.name_main,
     title_section |-> item.title_section, url |-> item.url,
     name_breadcrumbs |-> item.name_breadcrumbs, min_level |-> item.min_level,
     active |-> "unset"]

RECURSIVE FilterCopy(_, _)
FilterCopy(items, level) ==
    IF items = <<>> THEN <<>>
    ELSE IF level >= Head(items).min_level
    THEN <<ItemCopy(Head(items))>> \o FilterCopy(Tail(items), level)
    ELSE FilterCopy(Tail(items), level)

RECURSIVE FilterCopyGt(_, _)
FilterCopyGt(items, level) ==
    IF items = <<>> THEN <<>>
    ELSE IF level > Head(items).min_level
    THEN <<ItemCopy(Head(items))>> \o FilterCopyGt(Tail(items), level)
    ELSE FilterCopyGt(Tail(items), level)

_get_filtered_menu_gt(level) == FilterCopyGt(MENU_ITEMS, level)

_get_filtered_menu(level) == FilterCopy(MENU_ITEMS, level)

RECURSIVE groupby(_)
\* itertools.groupby on title_section: consecutive items with an equal key
groupby(items) ==
    IF items = <<>> THEN <<>>
    ELSE LET rest == groupby(Tail(items)) IN
         IF rest /= <<>> /\ Head(rest).title = Head(items).title_section
         THEN <<[title |-> Head(rest).title,
                 section_items |-> <<Head(items)>> \o Head(rest).section_items]>>
              \o Tail(rest)
         ELSE <<[title |-> Head(items).title_section, section_items |-> <<Head(items)>>]>>
              \o rest

RECURSIVE GroupByKey(_)
\* one group for each key, whether or not its items are adjacent
GroupByKey(items) ==
    IF items = <<>> THEN <<>>
    ELSE LET k == Head(items).title_section IN
         <<[title |-> k, section_items |-> SelectSeq(items, LAMBDA x : x.title_section = k)]>>
         \o GroupByKey(SelectSeq(items, LAMBDA x : x.title_section /= k))

_group_menu_by_section_by_key(filtered_menu_items) ==
    IF \E i \in 1..Len(filtered_menu_items) : filtered_menu_items[i].title_section = NoneStr
    THEN <<>>
    ELSE GroupByKey(filtered_menu_items)

\* an item without the key title_section carries NoneStr there: KeyError
_group_menu_by_section(filtered_menu_items) ==
    IF \E i \in 1..Len(filtered_menu_items) : filtered_menu_items[i].title_section = NoneStr
    THEN <<>>
    ELSE groupby(filtered_menu_items)

RECURSIVE FirstAlert(_, _)
\* next(alert for alert in ALERTS_DATA if ...), None: the index of the alert, or None
FirstAlert(i, normalized_path) ==
    IF i > Len(ALERTS_DATA) THEN None
    ELSE IF _normalize_path(ALERTS_DATA[i].url_info) = normalized_path THEN i
    ELSE FirstAlert(i + 1, normalized_path)

RECURSIVE FirstAlertFor(_, _, _)
FirstAlertFor(i, normalized_path, access_name) ==
    IF i > Len(ALERTS_DATA) THEN None
    ELSE IF /\ _normalize_path(ALERTS_DATA[i].url_info) = normalized_path
            /\ access_name \in ALERTS_DATA[i].access
    THEN i
    ELSE FirstAlertFor(i + 1, normalized_path, access_name)


AccessName(level) ==
    IF level = ADMIN THEN "ADMIN"
    ELSE IF level = MOD_SISTEMA THEN "MOD_SISTEMA"
    ELSE IF level = MOD_ARENA THEN "MOD_ARENA"
    ELSE IF level = MOD_TACTICO THEN "MOD_TACTICO"
    ELSE "PARTICIPANTE"

\* current_user as _calculate_access_level reads it
CurrentUser ==
    [is_authenticated |-> is_authenticated,
     jerarquia |-> IF is_authenticated THEN user_level ELSE None]

_get_active_alert_access(normalized_path) ==
    IF normalized_path = NoneTxt THEN None
    ELSE FirstAlertFor(1, normalized_path, AccessName(_calculate_access_level(CurrentUser)))

\* the index in ALERTS_DATA of the alert of the path, or None
_get_active_alert(normalized_path) ==
    IF normalized_path = NoneTxt THEN None
    ELSE FirstAlert(1, normalized_path)

RECURSIVE MarkItems(_, _)
\* the inner loop of _mark_active_menu_and_get_page_info: items before the
\* first match become inactive, the match active, and the loop returns
MarkItems(section_items, current_path) ==
    IF section_items = <<>> THEN <<>>
    ELSE IF _normalize_path(Head(section_items).url) = current_path
    THEN <<[Head(section_items) EXCEPT !.active = "True"]>> \o Tail(section_items)
    ELSE <<[Head(section_items) EXCEPT !.active = "False"]>>
         \o MarkItems(Tail(section_items), current_path)

HasActive(section_items) ==
    \E i \in 1..Len(section_items) : section_items[i].active = "True"

RECURSIVE MarkSections(_, _)
MarkSections(grouped_menu_data, current_path) ==
    IF grouped_menu_data = <<>> THEN <<>>
    ELSE LET marked == MarkItems(Head(grouped_menu_data).section_items, current_path) IN
         IF HasActive(marked)
         THEN <<[Head(grouped_menu_data) EXCEPT !.section_items = marked]>>
              \o Tail(grouped_menu_data)
         ELSE <<[Head(grouped_menu_data) EXCEPT !.section_items = marked]>>
              \o MarkSections(Tail(grouped_menu_data), current_path)

RECURSIVE Flatten(_)
\* the items of a grouped menu, in order
Flatten(grouped_menu_data) ==
    IF grouped_menu_data = <<>> THEN <<>>
    ELSE Head(grouped_menu_data).section_items \o Flatten(Tail(grouped_menu_data))

_mark_active_menu_and_get_page_info_swapped(grouped_menu_data, current_path) ==
    LET menu == MarkSections(grouped_menu_data, current_path)
        flat == Flatten(menu)
    IN IF HasActive(flat)
       THEN LET item == flat[CHOOSE i \in 1..Len(flat) : flat[i].active = "True"] IN
            [menu |-> menu, page_title |-> item.name_breadcrumbs,
             page_data |-> item.name_main]
       ELSE [menu |-> menu, page_title |-> DEFAULT_PAGE_TITLE,
             page_data |-> DEFAULT_PAGE_DATA]

\* [menu, page_title, page_data]: the menu with the marks, and the page header
_mark_active_menu_and_get_page_info(grouped_menu_data, current_path) ==
    LET menu == MarkSections(grouped_menu_data, current_path)
        flat == Flatten(menu)
    IN IF HasActive(flat)
       THEN LET item == flat[CHOOSE i \in 1..Len(flat) : flat[i].active = "True"] IN
            [menu |-> menu, page_title |-> item.name_main,
             page_data |-> item.name_breadcrumbs]
       ELSE [menu |-> menu, page_title |-> DEFAULT_PAGE_TITLE,
             page_data |-> DEFAULT_PAGE_DATA]

get_dashboard_data(current_path) ==
    IF current_path = NoneTxt THEN [exc |-> "TypeError"]
    ELSE LET norm_path == _normalize_path(IF current_path = <<>> THEN <<"/">>
                                          ELSE current_path)
             grouped_menu_data == IF is_authenticated
                                  THEN _group_menu_by_section(_get_filtered_menu(user_level))
                                  ELSE <<>>
             access_value == IF is_authenticated THEN _calculate_access_level(CurrentUser)
                             ELSE PARTICIPANTE
             page == _mark_active_menu_and_get_page_info(grouped_menu_data, norm_path)
         IN [exc |-> NoneStr,
             menu_data |-> page.menu,
             alert_finish |-> _get_active_alert(norm_path),
             page_data |-> page.page_data,
             page_title |-> page.page_title,
             access_value |-> access_value,
             min_access_level |-> DEFAULT_MIN_ACCESS_LEVEL]

(***************************************************************************)
(* Specifications of the dashboard service.                                *)
(***************************************************************************)
RECURSIVE Texts(_, _)
\* the texts of at most n characters of the alphabet
Texts(alphabet, n) ==
    IF n = 0 THEN {<<>>}
    ELSE LET shorter == Texts(alphabet, n - 1) IN
         shorter \cup {<<c>> \o t : c \in alphabet, t \in {s \in shorter : Len(s) = n - 1}}

Paths == Texts({"/", "a", "b"}, MaxPathLen) \cup {NoneTxt}

NormalizePath(path) ==
    /\ last' = [op |-> "_normalize_path", path |-> path, result |-> _normalize_path(path)]
    /\ UNCHANGED <<current_user, usuarios, jerarquias, protocolos, equipos, equipo,
                   torneos, pend, seq>>
    /\ UNCHANGED <<avatars, now, config>>

InitPath == InitCommon

NextPath == \E path \in Paths : NormalizePath(path)

SpecPath == InitPath /\ [][NextPath]_vars

\* menu items as _group_menu_by_section reads them; NoneStr: the key is absent
SampleItems == [title_section : {"OPS", "SYS", NoneStr}, name_main : {"M1", "M2"}]

RECURSIVE ItemLists(_)
ItemLists(n) ==
    IF n = 0 THEN {<<>>}
    ELSE LET shorter == ItemLists(n - 1) IN
         shorter \cup {<<i>> \o l : i \in SampleItems, l \in {s \in shorter : Len(s) = n - 1}}

GroupMenuBySection(filtered_menu_items) ==
    /\ last' = [op |-> "_group_menu_by_section", items |-> filtered_menu_items,
                result |-> _group_menu_by_section(filtered_menu_items)]
    /\ UNCHANGED <<current_user, usuarios, jerarquias, protocolos, equipos, equipo,
                   torneos, pend, seq>>
    /\ UNCHANGED <<avatars, now, config>>

InitGroup == InitCommon

NextGroup == \E items \in ItemLists(MaxItems) : GroupMenuBySection(items)

SpecGroup == InitGroup /\ [][NextGroup]_vars

\* raw levels around every min_level of the menu
LevelSamples == {0, 4, 5, 19, 20, 49, 50, 79, 80, 100}

MenuUrls == {MENU_ITEMS[i].url : i \in 1..Len(MENU_ITEMS)}

RequestPaths ==
    MenuUrls \cup {url \o <<"/">> : url \in MenuUrls}
    \cup {<<>>, <<"/", "/">>, <<"/", "n", "a", "d", "a">>, NoneTxt}

GetDashboardData(current_path) ==
    /\ last' = [op |-> "get_dashboard_data", path |-> current_path,
                context |-> get_dashboard_data(current_path)]
    /\ UNCHANGED <<current_user, usuarios, jerarquias, protocolos, equipos, equipo,
                   torneos, pend, seq>>
    /\ UNCHANGED <<avatars, now, config>>

\* the first jerarquia has any of the sample levels
InitDashboard ==
    /\ current_user = Anonymous
    /\ usuarios = SeedUsuarios
    /\ \E l \in LevelSamples : jerarquias = [SeedJerarquias EXCEPT ![1].nivel_acceso = l]
    /\ protocolos = EmptyMap
    /\ equipos = EmptyMap
    /\ equipo = NoEquipo
    /\ torneos = EmptyMap
    /\ pend = EmptyMap
    /\ seq = SeedSeq
    /\ last = [op |-> "init"]
    /\ avatars = EmptyMap
    /\ now = 0
    /\ config = EmptyMap

NextDashboard ==
    \/ \E method \in {"GET", "POST"}, email \in {<<"1", "@", "x">>, MailRoot, MailNeo},
          password \in LoginPasswords : Login(method, email, password, FALSE)
    \/ Logout
    \/ \E path \in RequestPaths : GetDashboardData(path)

SpecDashboard == InitDashboard /\ [][NextDashboard]_vars


(***************************************************************************)
(* C11 - C15: the dashboard service.                                       *)
(***************************************************************************)
EndsInSlash(path) == path /= <<>> /\ path[Len(path)] = "/"

\* C11: for a str path ending in "/", _normalize_path returns the path without
\* its trailing slash, except that "/" stays "/"; a non-empty path never
\* normalizes to the empty string.
C11_NormalizePath ==
    (last.op = "_normalize_path" /\ last.path /= NoneTxt) =>
        /\ EndsInSlash(last.path) =>
              last.result = IF last.path = <<"/">> THEN last.path
                            ELSE SubSeq(last.path, 1, Len(last.path) - 1)
        /\ last.path /= <<>> => last.result /= <<>>

\* C11, failing case: the path "//" normalizes to the empty string.
C11_Witness ==
    /\ last.op = "_normalize_path"
    /\ last.path = <<"/", "/">>
    /\ last.result = <<>>

\* What holds of C11: a path with exactly one trailing slash loses it, "/" is
\* kept, and a path with a character other than "/" never becomes empty.
C11_Holds ==
    (last.op = "_normalize_path" /\ last.path /= NoneTxt) =>
        /\ last.path = <<"/">> => last.result = <<"/">>
        /\ (Len(last.path) > 1 /\ EndsInSlash(last.path)
               /\ last.path[Len(last.path) - 1] /= "/")
              => last.result = SubSeq(last.path, 1, Len(last.path) - 1)
        /\ (\E i \in 1..Len(last.path) : last.path[i] /= "/") => last.result /= <<>>

\* the menu item without its mark
Unmarked(item) == [k \in DOMAIN item \ {"active"} |-> item[k]]

DashboardAnswered == last.op = "get_dashboard_data" /\ last.context.exc = NoneStr

\* C12: for an authenticated user of raw level L the items of menu_data are
\* exactly the MENU_ITEMS entries with min_level <= L, once each and in
\* MENU_ITEMS order; for an unauthenticated caller menu_data is empty and
\* access_value is PARTICIPANTE.
C12_MenuFiltered ==
    DashboardAnswered =>
        LET flat == Flatten(last.context.menu_data) IN
        IF is_authenticated
        THEN [i \in 1..Len(flat) |-> Unmarked(flat[i])]
             = SelectSeq(MENU_ITEMS, LAMBDA item : item.min_level <= user_level)
        ELSE last.context.menu_data = <<>> /\ last.context.access_value = PARTICIPANTE

\* C12: a user of level 50 gets the six items up to min_level 50.
C12_Witness ==
    /\ DashboardAnswered
    /\ is_authenticated
    /\ user_level = 50
    /\ Len(Flatten(last.context.menu_data)) = 6

\* the path get_dashboard_data compares with
NormPath == _normalize_path(IF last.path = <<>> THEN <<"/">> ELSE last.path)

\* C13: at most one item is active: the first item of the caller's menu whose
\* normalized url equals the normalized path, whose name_main and
\* name_breadcrumbs are returned; without a visible match no item is active
\* and the defaults are returned.
C13_ActiveItem ==
    DashboardAnswered =>
        LET flat == Flatten(last.context.menu_data)
            matches == {i \in 1..Len(flat) : _normalize_path(flat[i].url) = NormPath}
            actives == {i \in 1..Len(flat) : flat[i].active = "True"}
        IN IF matches /= {}
           THEN LET first == CHOOSE i \in matches : \A j \in matches : i <= j IN
                /\ actives = {first}
                /\ last.context.page_title = flat[first].name_main
                /\ last.context.page_data = flat[first].name_breadcrumbs
           ELSE /\ actives = {}
                /\ last.context.page_title = "MAINFRAME_HUB"
                /\ last.context.page_data = "COMMAND_CENTER"

\* C13: /usuarios/ requested by a user who sees the item: it is the active one.
C13_Witness ==
    /\ DashboardAnswered
    /\ last.path = <<"/", "u", "s", "u", "a", "r", "i", "o", "s", "/">>
    /\ last.context.page_title = "SUBJECT_PROFILES"
    /\ last.context.page_data = "FIRMAS_NEURALES"

\* C13: /jerarquias requested by a user below its min_level: the defaults.
C13_HiddenWitness ==
    /\ DashboardAnswered
    /\ is_authenticated
    /\ last.path = <<"/", "j", "e", "r", "a", "r", "q", "u", "i", "a", "s">>
    /\ last.context.page_title = "MAINFRAME_HUB"
    /\ last.context.menu_data /= <<>>

\* C14: one group per maximal run of adjacent items with the same
\* title_section, in input order; the groups' section_items concatenated are
\* the input; a section whose items are not contiguous appears in several groups.
C14_GroupRuns ==
    (/\ last.op = "_group_menu_by_section"
     /\ \A i \in 1..Len(last.items) : last.items[i].title_section /= NoneStr) =>
        LET groups == last.result IN
        /\ Flatten(groups) = last.items
        /\ \A g \in 1..Len(groups) :
              /\ groups[g].section_items /= <<>>
              /\ \A i \in 1..Len(groups[g].section_items) :
                    groups[g].section_items[i].title_section = groups[g].title
        /\ \A g \in 1..(Len(groups) - 1) : groups[g].title /= groups[g + 1].title
        /\ (\E i, j, k \in 1..Len(last.items) :
               /\ i < j /\ j < k
               /\ last.items[i].title_section = last.items[k].title_section
               /\ last.items[j].title_section /= last.items[i].title_section)
           => \E g, h \in 1..Len(groups) : g /= h /\ groups[g].title = groups[h].title

\* C14: OPS, SYS, OPS gives three groups, the first and third both OPS.
C14_Witness ==
    /\ last.op = "_group_menu_by_section"
    /\ Len(last.items) = 3
    /\ Len(last.result) = 3
    /\ last.result[1].title = "OPS"
    /\ last.result[2].title = "SYS"
    /\ last.result[3].title = "OPS"

\* C15: alert_finish is the first ALERTS_DATA entry whose normalized url_info
\* equals the normalized path, or None; it is a function of the path alone,
\* the same for every caller.
C15_AlertByPath ==
    DashboardAnswered =>
        LET matches == {i \in 1..Len(ALERTS_DATA) :
                           _normalize_path(ALERTS_DATA[i].url_info) = NormPath}
        IN IF matches = {} THEN last.context.alert_finish = None
           ELSE /\ last.context.alert_finish \in matches
                /\ \A j \in matches : last.context.alert_finish <= j

\* C15: a level 0 user requesting /protocolos gets the alert whose access list
\* names ADMIN only, while the menu does not show the page.
C15_Witness ==
    /\ DashboardAnswered
    /\ is_authenticated
    /\ user_level = 0
    /\ last.path = <<"/", "p", "r", "o", "t", "o", "c", "o", "l", "o", "s">>
    /\ last.context.alert_finish /= None
    /\ ALERTS_DATA[last.context.alert_finish].access = {"ADMIN"}
    /\ last.context.page_title = "MAINFRAME_HUB"


(***************************************************************************)
(* C16: rollback on failure, on update_torneo.                             *)
(***************************************************************************)
UpdateTorneoRaised == last'.op = "update_torneo" /\ last'.ret /= "Torneo"

\* C16: when update_torneo raises after assigning some fields the session is
\* rolled back, so nothing it assigned stays pending, and a later commit
\* writes nothing of it: the committed rows change only by an update_torneo
\* that returns.
C16_RollbackOnFailure ==
    /\ [][(UpdateTorneoRaised /\ pend = EmptyMap) => pend' = EmptyMap]_vars
    /\ [][last'.op = "create_torneo"
             => \A id \in DOMAIN torneos : torneos'[id] = torneos[id]]_vars

\* C16, failing case: update_torneo raised ValueError and the Torneo keeps, in
\* the session, a fecha_inicio that differs from the committed one.
C16_Witness ==
    /\ last.op = "update_torneo"
    /\ last.ret = "ValueError"
    /\ last.id_torneo \in DOMAIN pend
    /\ pend[last.id_torneo].fecha_inicio /= torneos[last.id_torneo].fecha_inicio

\* C16, second half alone: a create_torneo never changes another Torneo.
C16_LaterCommit ==
    [][last'.op = "create_torneo"
          => \A id \in DOMAIN torneos : torneos'[id] = torneos[id]]_vars

\* What holds of C16: an update_torneo that raises SQLAlchemyError leaves the
\* session clean, and no call that raises changes a committed row.
C16_Holds ==
    /\ [][(last'.op = "update_torneo" /\ last'.ret = "SQLAlchemyError")
             => (pend' = EmptyMap /\ torneos' = torneos)]_vars
    /\ [][UpdateTorneoRaised => torneos' = torneos]_vars


(***************************************************************************)
(* C18: non-numeric ids.                                                   *)
(***************************************************************************)
\* a non-empty text that int() refuses
NonNumeric(t) == t /= NoneTxt /\ t /= Txt0 /\ ~IsNumeric(t)

\* C18: create_torneo and update_torneo called with a non-numeric id_juego
\* raise TypeError and create or modify nothing in the committed rows.
C18_NonNumericId ==
    [][(last'.op \in {"create_torneo", "update_torneo"} /\ NonNumeric(last'.submitted.id_juego))
          => (last'.ret = "TypeError" /\ torneos' = torneos)]_vars

\* C18, failing case: create_torneo with every other field acceptable and
\* id_juego "x" raises ValueError.
C18_Witness ==
    /\ last.op = "create_torneo"
    /\ last.submitted.id_juego = <<"x">>
    /\ last.submitted.nombre_torneo = TxtAce
    /\ IsIsoDate(last.submitted.fecha_inicio)
    /\ IsIsoDate(last.submitted.fecha_fin)
    /\ last.ret = "ValueError"

\* What holds of C18 for torneos: a non-numeric id_juego is refused, with
\* ValueError, and the committed rows stay as they were.
C18_Holds ==
    [][(last'.op \in {"create_torneo", "update_torneo"} /\ NonNumeric(last'.submitted.id_juego))
          => (last'.ret \in {"ValueError", "SQLAlchemyError"} /\ torneos' = torneos)]_vars

\* What holds of C18 for usuarios: POST /usuarios/create by a logged-in user
\* with a non-numeric id_jerarquia, the other fields present and the email with
\* "@", ends in TypeError and adds no Usuario.
C18_UsuarioHolds ==
    [][(/\ last'.op = "usuario.create"
        /\ is_authenticated
        /\ NonNumeric(last'.form.id_jerarquia)
        /\ last'.form.alias_usuario \notin {NoneTxt, Txt0}
        /\ last'.form.password_usuario \notin {NoneTxt, Txt0}
        /\ HasAt(last'.form.email_usuario))
          => (last'.response = "TypeError" /\ usuarios' = usuarios)]_vars


(***************************************************************************)
(* C17, C19: what the route handlers answer.                               *)
(***************************************************************************)
ServiceExceptions == {"ValueError", "TypeError", "LookupError", "SQLAlchemyError"}

\* C17: a route handler turns an exception of its service into a flash message
\* and a redirect; here POST /usuarios/create: its response is never an
\* exception of create_usuario.
C17_RoutesHandle ==
    last.op = "usuario.create" => last.response \notin ServiceExceptions

\* C17, failing case: a logged-in user posts an email without "@" and the
\* ValueError of create_usuario is the response.
C17_Witness ==
    /\ last.op = "usuario.create"
    /\ is_authenticated
    /\ last.form.email_usuario = MailBad
    /\ last.response = "ValueError"

\* C19: POST /equipos/<id_equipo>/add_member with the decimal id of an existing
\* user who is not a member, on an existing team below capacity, makes the user
\* a member and redirects to the manage page.
C19_AddMemberRoute ==
    [][(/\ last'.op = "equipo.add_member"
        /\ is_authenticated
        /\ IsNumeric(last'.form)
        /\ int(last'.form) \in DOMAIN usuarios
        /\ last'.id_equipo \in DOMAIN equipos
        /\ ~es_miembro(equipos[last'.id_equipo], int(last'.form))
        /\ miembros_count(equipos[last'.id_equipo]) < equipos[last'.id_equipo].maximo_miembros)
          => /\ last'.response = "redirect_manage_members"
             /\ es_miembro(equipos'[last'.id_equipo], int(last'.form))]_vars

\* C19, failing case: the request for user "2" on a team that has room and
\* does not hold them ends in TypeError, and the user is not a member.
C19_Witness ==
    /\ last.op = "equipo.add_member"
    /\ last.form = <<"2">>
    /\ last.response = "TypeError"
    /\ last.id_equipo \in DOMAIN equipos
    /\ ~es_miembro(equipos[last.id_equipo], 2)
    /\ miembros_count(equipos[last.id_equipo]) < equipos[last.id_equipo].maximo_miembros

\* What holds of C19: the same addition made with the id as an int succeeds.
C19_Holds ==
    [][(/\ last'.op = "add_member_to_equipo"
        /\ last'.id_usuario \in DOMAIN usuarios
        /\ last'.id_equipo \in DOMAIN equipos
        /\ ~es_miembro(equipos[last'.id_equipo], last'.id_usuario)
        /\ miembros_count(equipos[last'.id_equipo]) < equipos[last'.id_equipo].maximo_miembros)
          => /\ last'.ret = "True"
             /\ es_miembro(equipos'[last'.id_equipo], last'.id_usuario)]_vars

(***************************************************************************)
(* Jerarquias: the create service and its route.  A Python value whose     *)
(* type the code inspects is a record of its type name and its value.      *)
(***************************************************************************)
MaxNuevasJerarquias == 1

\* Profiles.SISTEMA, the allow-list of the jerarquias routes.
ProfilesSISTEMA == {MOD_SISTEMA, ADMIN}

PyNone == [type |-> "NoneType", value |-> None]

PyStr(t) == [type |-> "str", value |-> t]

PyInt(n) == [type |-> "int", value |-> n]

PyList(l) == [type |-> "list", value |-> l]

\* bool(v)
PyTruthy(v) ==
    IF v.type = "NoneType" THEN FALSE
    ELSE IF v.type = "int" THEN v.value /= 0
    ELSE v.value /= <<>>

\* request.form.get(name): the text sent, or None for a field not sent
FormGet(t) == IF t = NoneTxt THEN PyNone ELSE PyStr(t)

HexDigits == Range(Digits) \cup {"a", "b", "c", "d", "e", "f", "A", "B", "C", "D", "E", "F"}

\* int(t, 16) accepts the text (texts of letters and digits)
IsHex(t) == t /= <<>> /\ \A i \in 1..Len(t) : t[i] \in HexDigits

_es_color_valido(color) ==
    IF color.type /= "str" THEN FALSE
    ELSE IF color.value = <<>> \/ color.value[1] /= "#" THEN FALSE
    ELSE IF Len(color.value) /= 7 THEN FALSE
    ELSE IsHex(Tail(color.value))

Jerarquia(nombre, subtitulo, descripcion, nivel, color, protocolos_) ==
    [nombre_jerarquia |-> nombre, subtitulo_jerarquia |-> subtitulo,
     descripcion_jerarquia |-> descripcion, nivel_acceso |-> nivel,
     color_hex |-> color, protocolos |-> protocolos_]

\* the seed jerarquias with all their columns
SeedJerarquiasFull ==
    LET nombres == <<<<"P", "A", "R">>, <<"T", "A", "C">>, <<"S", "I", "S">>, <<"A", "D", "M">>>>
    IN [id \in DOMAIN SeedJerarquias |->
          Jerarquia(nombres[id], <<"s">>, <<"d">>, SeedJerarquias[id].nivel_acceso,
                    <<"#", "A", "3", "F", "F", "0", "0">>, <<>>)]

\* two protocolos created by create_protocol
SeedProtocolos ==
    (1 :> ProtocoloDefaults([codigo |-> "sys_root", nombre |-> TxtRoot,
                             categoria |-> "system", descripcion |-> 10]))
    @@ (2 :> ProtocoloDefaults([codigo |-> "arn_build", nombre |-> TxtAce,
                                categoria |-> "arena", descripcion |-> 10]))

\* protocolos_services.get_protocolo_by_id with the id as sent or as an int:
\* the id of the row, or None
get_protocolo_by_id(id_protocolo) ==
    LET id == IF id_protocolo.type = "int" THEN id_protocolo.value
              ELSE IF id_protocolo.type = "str" /\ IsNumeric(id_protocolo.value)
                   THEN int(id_protocolo.value)
              ELSE None
    IN IF id \in DOMAIN protocolos THEN id ELSE None

\* the rows a query of the session returns: the committed rows with the
\* session's uncommitted assignments (pend) written over them by autoflush
SessionJerarquias ==
    [j \in DOMAIN jerarquias |-> IF j \in DOMAIN pend THEN pend[j] ELSE jerarquias[j]]

get_jerarquia_by_nombre(nombre) ==
    IF \E j \in DOMAIN jerarquias : SessionJerarquias[j].nombre_jerarquia = nombre
    THEN CHOOSE j \in DOMAIN jerarquias : SessionJerarquias[j].nombre_jerarquia = nombre
    ELSE None

\* get_jerarquia_by_id: the id when the row exists, else None
get_jerarquia_by_id(id_jerarquia) ==
    IF id_jerarquia \in DOMAIN jerarquias THEN id_jerarquia ELSE None

\* CHECK, NOT NULL and UNIQUE constraints of table jerarquias and the rows of
\* jerarquia_protocolo
JerarquiaRowOk(row, table) ==
    /\ row.nivel_acceso >= 0 /\ row.nivel_acceso <= 100
    /\ Len(row.nombre_jerarquia) >= 2
    /\ \A j \in DOMAIN table : table[j].nombre_jerarquia /= row.nombre_jerarquia
    /\ ForeignKeysEnforced => \A i \in 1..Len(row.protocolos) : row.protocolos[i] \in DOMAIN protocolos

\* jerarquias_services.create_jerarquia
create_jerarquia(nombre, subtitulo, descripcion, nivel, color, protocolos_) ==
    LET id == Max(DOMAIN jerarquias) + 1
        row == Jerarquia(nombre.value, subtitulo.value, descripcion.value, nivel.value,
                         color.value,
                         IF PyTruthy(protocolos_) THEN protocolos_.value ELSE <<>>)
    IN
    IF ~(/\ PyTruthy(nombre) /\ PyTruthy(subtitulo) /\ PyTruthy(descripcion)
         /\ nivel.type /= "NoneType" /\ PyTruthy(color))
    THEN [exc |-> "ValueError", table |-> jerarquias, pend |-> pend]
    ELSE IF Len(strip(nombre.value)) < 3 THEN [exc |-> "ValueError", table |-> jerarquias, pend |-> pend]
    ELSE IF nivel.type /= "int" \/ ~(1 <= nivel.value /\ nivel.value <= 100)
         THEN [exc |-> "ValueError", table |-> jerarquias, pend |-> pend]
    ELSE IF ~_es_color_valido(color) THEN [exc |-> "ValueError", table |-> jerarquias, pend |-> pend]
    ELSE IF get_jerarquia_by_nombre(nombre.value) /= None
         THEN [exc |-> "ValueError", table |-> jerarquias, pend |-> pend]
    ELSE IF protocolos_.type = "str" /\ PyTruthy(protocolos_)
         THEN [exc |-> "TypeError", table |-> jerarquias, pend |-> pend]
    ELSE IF ~JerarquiaRowOk(row, SessionJerarquias)
         THEN [exc |-> "SQLAlchemyError", table |-> jerarquias, pend |-> EmptyMap]
    ELSE [exc |-> "None", table |-> Put(SessionJerarquias, id, row), pend |-> EmptyMap]

NuevasJerarquias == Cardinality(DOMAIN jerarquias) - Cardinality(DOMAIN SeedJerarquias)

\* a call of the service with Python values of the declared types
CreateJerarquia(nombre, subtitulo, descripcion, nivel, color, protocolos_) ==
    LET r == create_jerarquia(PyStr(nombre), PyStr(subtitulo), PyStr(descripcion),
                              PyInt(nivel), PyStr(color), PyList(protocolos_))
    IN
    /\ NuevasJerarquias < MaxNuevasJerarquias
    /\ jerarquias' = r.table
    /\ last' = [op |-> "create_jerarquia", nombre |-> nombre, subtitulo |-> subtitulo,
                descripcion |-> descripcion, nivel |-> nivel, color |-> color,
                protocolos |-> protocolos_, ret |-> r.exc]
    /\ pend' = r.pend
    /\ UNCHANGED <<current_user, usuarios, protocolos, equipos, equipo, torneos, seq>>
    /\ UNCHANGED <<avatars, now, config>>

\* POST /jerarquias/create: the form fields are texts, protocolos_ids a list of texts
JerarquiasCreate(form) ==
    LET gate == permission_required(ProfilesSISTEMA)
        nombre == FormGet(form.nombre_de_jerarquia)
        subtitulo == FormGet(form.subtitulo_de_jerarquia)
        nivel == FormGet(form.nivel_jerarquia)
        descripcion == FormGet(form.descripcion_de_jerarquia)
        color == FormGet(form.color_jerarquia)
        protocolos_ids == form.protocolos_ids
        protocolos_ == [i \in 1..Len(protocolos_ids) |->
                          get_protocolo_by_id(PyStr(protocolos_ids[i]))]
        \* create_jerarquia(nombre, subtitulo, descripcion, nivel, protocolos, color):
        \* the fifth positional parameter of the service is color, the sixth protocolos
        r == create_jerarquia(nombre, subtitulo, descripcion, nivel,
                              PyList(protocolos_), color)
    IN
    /\ NuevasJerarquias < MaxNuevasJerarquias
    /\ IF require_login("jerarquia.create") /= "pass"
       THEN /\ jerarquias' = jerarquias
            /\ pend' = pend
            /\ last' = [op |-> "jerarquia.create", form |-> form,
                        response |-> require_login("jerarquia.create")]
       ELSE IF gate /= "run"
       THEN /\ jerarquias' = jerarquias
            /\ pend' = pend
            /\ last' = [op |-> "jerarquia.create", form |-> form, response |-> gate]
       ELSE /\ jerarquias' = r.table
            /\ pend' = r.pend
            /\ last' = [op |-> "jerarquia.create", form |-> form,
                        response |-> IF r.exc = "None" THEN "redirect_jerarquia_index"
                                     ELSE r.exc]
    /\ UNCHANGED <<current_user, usuarios, protocolos, equipos, equipo, torneos, seq>>
    /\ UNCHANGED <<avatars, now, config>>

ColorRed == <<"#", "F", "F", "0", "0", "0", "0">>

ColorNames == {ColorRed, <<"r", "e", "d">>, <<"#", "F", "F", "0", "0", "0", "g">>}

JerarquiaNombres == {TxtAce, TxtAb, <<"A", "D", "M">>}

JerarquiaForms ==
    [nombre_de_jerarquia : JerarquiaNombres,
     subtitulo_de_jerarquia : {<<"s">>, Txt0},
     descripcion_de_jerarquia : {<<"d">>},
     nivel_jerarquia : {<<"5", "0">>, <<"x">>, NoneTxt},
     color_jerarquia : {ColorRed, <<"r", "e", "d">>},
     protocolos_ids : {<<>>, <<<<"2">>, <<"1">>>>, <<<<"9">>>>}]

CreateJerarquiaArgs ==
    JerarquiaNombres \X {<<"s">>} \X {<<"d">>} \X {50, 0, 101}
    \X ColorNames \X {<<>>, <<2, 1>>}

InitJerarquia ==
    /\ current_user = Anonymous
    /\ usuarios = SeedUsuarios
    /\ jerarquias = SeedJerarquiasFull
    /\ protocolos = SeedProtocolos
    /\ equipos = EmptyMap
    /\ equipo = NoEquipo
    /\ torneos = EmptyMap
    /\ pend = EmptyMap
    /\ seq = [SeedSeq EXCEPT !.protocolos = 2]
    /\ last = [op |-> "init"]
    /\ avatars = EmptyMap
    /\ now = 0
    /\ config = EmptyMap

NextJerarquia ==
    \/ \E a \in CreateJerarquiaArgs : CreateJerarquia(a[1], a[2], a[3], a[4], a[5], a[6])
    \/ \E form \in JerarquiaForms : JerarquiasCreate(form)
    \/ \E method \in {"GET", "POST"}, email \in {<<"1", "@", "x">>, <<"3", "@", "x">>, MailRoot, MailNeo},
          password \in LoginPasswords :
          Login(method, email, password, FALSE)
    \/ Logout

SpecJerarquia == InitJerarquia /\ [][NextJerarquia]_vars

(***************************************************************************)
(* C20: POST /jerarquias/create.                                           *)
(***************************************************************************)
\* the form of the claim: texts, a free name of 3 characters or more, a level in
\* decimal within 1..100, a #RRGGBB colour, ids of existing protocolos
WellFormedJerarquiaForm(form) ==
    /\ Len(strip(form.nombre_de_jerarquia)) >= 3
    /\ get_jerarquia_by_nombre(form.nombre_de_jerarquia) = None
    /\ form.subtitulo_de_jerarquia \notin {NoneTxt, Txt0}
    /\ form.descripcion_de_jerarquia \notin {NoneTxt, Txt0}
    /\ IsNumeric(form.nivel_jerarquia)
    /\ int(form.nivel_jerarquia) >= 1 /\ int(form.nivel_jerarquia) <= 100
    /\ _es_color_valido(PyStr(form.color_jerarquia))
    /\ \A i \in 1..Len(form.protocolos_ids) :
          get_protocolo_by_id(PyStr(form.protocolos_ids[i])) /= None

\* the row equals the form, field by field
RowOfForm(row, form) ==
    /\ row.nombre_jerarquia = form.nombre_de_jerarquia
    /\ row.subtitulo_jerarquia = form.subtitulo_de_jerarquia
    /\ row.descripcion_jerarquia = form.descripcion_de_jerarquia
    /\ row.nivel_acceso = int(form.nivel_jerarquia)
    /\ row.color_hex = form.color_jerarquia
    /\ Len(row.protocolos) = Len(form.protocolos_ids)
    /\ \A i \in 1..Len(row.protocolos) : row.protocolos[i] = int(form.protocolos_ids[i])

\* C20: POST /jerarquias/create by a permitted user with a well-formed form
\* persists a Jerarquia whose nombre, subtitulo, descripcion, nivel_acceso,
\* color_hex and protocolos equal the form fields of the same name.
C20_JerarquiaCreated ==
    [][(/\ last'.op = "jerarquia.create"
        /\ permission_required(ProfilesSISTEMA) = "run"
        /\ WellFormedJerarquiaForm(last'.form))
          => \E j \in DOMAIN jerarquias' \ DOMAIN jerarquias :
                RowOfForm(jerarquias'[j], last'.form)]_vars

\* C20, failing case: the ADMIN user posts name Ace, level 50, colour #FF0000
\* and protocolos 2 and 1; the request ends in ValueError and no Jerarquia
\* named Ace exists.
C20_Witness ==
    /\ last.op = "jerarquia.create"
    /\ is_authenticated
    /\ user_level = ADMIN
    /\ last.form = [nombre_de_jerarquia |-> TxtAce, subtitulo_de_jerarquia |-> <<"s">>,
                    descripcion_de_jerarquia |-> <<"d">>, nivel_jerarquia |-> <<"5", "0">>,
                    color_jerarquia |-> ColorRed, protocolos_ids |-> <<<<"2">>, <<"1">>>>]
    /\ last.response = "ValueError"
    /\ get_jerarquia_by_nombre(TxtAce) = None

\* What holds of C20: no request to the route ever adds or changes a Jerarquia;
\* a permitted request always ends in ValueError.
C20_RouteNeverPersists ==
    [][last'.op = "jerarquia.create"
          => /\ jerarquias' = jerarquias
             /\ last'.response \in {"redirect_login_next", "redirect_index", "ValueError"}]_vars

\* What holds of C20: the service called with a str name, subtitle, description
\* and colour, an int level in 1..100 and a list of protocolos persists exactly
\* those values.
C20_ServiceHolds ==
    [][(/\ last'.op = "create_jerarquia"
        /\ last'.ret = "None")
          => \E j \in DOMAIN jerarquias' \ DOMAIN jerarquias :
                jerarquias'[j] = Jerarquia(last'.nombre, last'.subtitulo, last'.descripcion,
                                            last'.nivel, last'.color, last'.protocolos)]_vars

(***************************************************************************)
(* Jerarquias: update_jerarquia, vincular_protocolo, desvincular_protocolo *)
(* on one session.  pend holds the rows the session has assigned and not   *)
(* committed.                                                              *)
(***************************************************************************)
DirtyJerarquia(p, id, row) == IF jerarquias[id] = row THEN Del(p, id) ELSE Put(p, id, row)

update_jerarquia(id_jerarquia, nombre, subtitulo, descripcion, nivel, color, protocolos_) ==
    IF get_jerarquia_by_id(id_jerarquia) = None
    THEN [exc |-> "ValueError", table |-> jerarquias, pend |-> pend]
    ELSE
    LET cur == SessionJerarquias[id_jerarquia]
        nombreOk == \/ nombre.type = "NoneType"
                    \/ /\ Len(strip(nombre.value)) >= 3
                       /\ \/ nombre.value = cur.nombre_jerarquia
                          \/ get_jerarquia_by_nombre(nombre.value) = None
        r1 == IF nombre.type /= "NoneType" THEN [cur EXCEPT !.nombre_jerarquia = nombre.value]
              ELSE cur
        r2 == IF subtitulo.type /= "NoneType"
              THEN [r1 EXCEPT !.subtitulo_jerarquia = subtitulo.value] ELSE r1
        r3 == IF descripcion.type /= "NoneType"
              THEN [r2 EXCEPT !.descripcion_jerarquia = descripcion.value] ELSE r2
        nivelOk == \/ nivel.type = "NoneType"
                   \/ nivel.type = "int" /\ 1 <= nivel.value /\ nivel.value <= 100
        r4 == IF nivel.type /= "NoneType" THEN [r3 EXCEPT !.nivel_acceso = nivel.value] ELSE r3
        colorOk == color.type = "NoneType" \/ _es_color_valido(color)
        r5 == IF color.type /= "NoneType" THEN [r4 EXCEPT !.color_hex = color.value] ELSE r4
        r6 == IF protocolos_.type /= "NoneType" THEN [r5 EXCEPT !.protocolos = protocolos_.value]
              ELSE r5
    IN
    IF ~nombreOk THEN [exc |-> "ValueError", table |-> jerarquias, pend |-> pend]
    ELSE IF ~nivelOk
    THEN [exc |-> "ValueError", table |-> jerarquias,
          pend |-> DirtyJerarquia(pend, id_jerarquia, r3)]
    ELSE IF ~colorOk
    THEN [exc |-> "ValueError", table |-> jerarquias,
          pend |-> DirtyJerarquia(pend, id_jerarquia, r4)]
    ELSE IF ~JerarquiaRowOk(r6, Del(SessionJerarquias, id_jerarquia))
    THEN [exc |-> "SQLAlchemyError", table |-> jerarquias, pend |-> EmptyMap]
    ELSE [exc |-> "None", table |-> Put(SessionJerarquias, id_jerarquia, r6),
          pend |-> EmptyMap]

\* list.remove(x): the first occurrence of x taken out
RECURSIVE remove(_, _)
remove(l, x) == IF l = <<>> THEN <<>>
                ELSE IF Head(l) = x THEN Tail(l)
                ELSE <<Head(l)>> \o remove(Tail(l), x)

vincular_protocolo_always(id_jerarquia, id_protocolo) ==
    IF get_jerarquia_by_id(id_jerarquia) = None
    THEN [exc |-> "ValueError", table |-> jerarquias, pend |-> pend]
    ELSE IF id_protocolo \notin DOMAIN protocolos
    THEN [exc |-> "ValueError", table |-> jerarquias, pend |-> pend]
    ELSE LET cur == SessionJerarquias[id_jerarquia]
             row == [cur EXCEPT !.protocolos = Append(@, id_protocolo)]
         IN [exc |-> "None", table |-> Put(SessionJerarquias, id_jerarquia, row),
             pend |-> EmptyMap]

vincular_protocolo(id_jerarquia, id_protocolo) ==
    IF get_jerarquia_by_id(id_jerarquia) = None
    THEN [exc |-> "ValueError", table |-> jerarquias, pend |-> pend]
    ELSE IF id_protocolo \notin DOMAIN protocolos
    THEN [exc |-> "ValueError", table |-> jerarquias, pend |-> pend]
    ELSE LET cur == SessionJerarquias[id_jerarquia]
             row == [cur EXCEPT !.protocolos = Append(@, id_protocolo)]
         IN IF id_protocolo \notin Range(cur.protocolos)
            THEN [exc |-> "None", table |-> Put(SessionJerarquias, id_jerarquia, row),
                  pend |-> EmptyMap]
            ELSE [exc |-> "None", table |-> jerarquias, pend |-> pend]

desvincular_protocolo(id_jerarquia, id_protocolo) ==
    IF get_jerarquia_by_id(id_jerarquia) = None
    THEN [exc |-> "ValueError", table |-> jerarquias, pend |-> pend]
    ELSE IF id_protocolo \notin DOMAIN protocolos
    THEN [exc |-> "ValueError", table |-> jerarquias, pend |-> pend]
    ELSE LET cur == SessionJerarquias[id_jerarquia]
             row == [cur EXCEPT !.protocolos = remove(@, id_protocolo)]
         IN IF id_protocolo \in Range(cur.protocolos)
            THEN [exc |-> "None", table |-> Put(SessionJerarquias, id_jerarquia, row),
                  pend |-> EmptyMap]
            ELSE [exc |-> "None", table |-> jerarquias, pend |-> pend]

\* jerarquia.protocolos as the session reads it; [] for a missing jerarquia
ProtocolosOf(id_jerarquia) ==
    IF id_jerarquia \in DOMAIN jerarquias THEN SessionJerarquias[id_jerarquia].protocolos
    ELSE <<>>

JerarquiaCall(r, record) ==
    /\ jerarquias' = r.table
    /\ pend' = r.pend
    /\ last' = record
    /\ UNCHANGED <<current_user, usuarios, protocolos, equipos, equipo, torneos, seq>>
    /\ UNCHANGED <<avatars, now, config>>

UpdateJerarquia(id_jerarquia, nombre, nivel, color, protocolos_) ==
    LET r == update_jerarquia(id_jerarquia, nombre, PyNone, PyNone, nivel, color, protocolos_)
    IN JerarquiaCall(r, [op |-> "update_jerarquia", id_jerarquia |-> id_jerarquia,
                         nombre |-> nombre, nivel |-> nivel, color |-> color,
                         protocolos |-> protocolos_, ret |-> r.exc])

VincularProtocolo(id_jerarquia, id_protocolo) ==
    LET r == vincular_protocolo(id_jerarquia, id_protocolo)
    IN JerarquiaCall(r, [op |-> "vincular_protocolo", id_jerarquia |-> id_jerarquia,
                         id_protocolo |-> id_protocolo, before |-> ProtocolosOf(id_jerarquia),
                         ret |-> r.exc])

DesvincularProtocolo(id_jerarquia, id_protocolo) ==
    LET r == desvincular_protocolo(id_jerarquia, id_protocolo)
    IN JerarquiaCall(r, [op |-> "desvincular_protocolo", id_jerarquia |-> id_jerarquia,
                         id_protocolo |-> id_protocolo, before |-> ProtocolosOf(id_jerarquia),
                         ret |-> r.exc])

\* <<nombre, nivel, color, protocolos>>
UpdateJerarquiaArgs ==
    {<<PyNone, v, PyNone, PyNone>> :
        v \in {PyInt(0), PyInt(1), PyInt(50), PyInt(100), PyInt(101), PyStr(<<"5", "0">>)}}
    \cup {<<PyStr(n), PyNone, PyNone, PyNone>> : n \in {TxtNeo, TxtAb, <<"A", "D", "M">>}}
    \cup {<<PyStr(TxtNeo), PyInt(0), PyNone, PyNone>>,
          <<PyStr(TxtNeo), PyNone, PyStr(<<"r", "e", "d">>), PyNone>>,
          <<PyNone, PyNone, PyStr(ColorRed), PyList(<<1>>)>>}

LevelArgs == {50, 0, 1, 100, 101}

CreateJerarquiaSvcArgs ==
    {<<TxtAce, <<"s">>, <<"d">>, v, ColorRed, <<2, 1>>>> : v \in LevelArgs}
    \cup {<<n, <<"s">>, <<"d">>, 50, ColorRed, <<>>>> : n \in {TxtAb, <<"A", "D", "M">>, TxtNeo}}

InitJerarquiaSvc == InitJerarquia

NextJerarquiaSvc ==
    \/ \E a \in CreateJerarquiaSvcArgs : CreateJerarquia(a[1], a[2], a[3], a[4], a[5], a[6])
    \/ \E id \in {1, 9}, a \in UpdateJerarquiaArgs : UpdateJerarquia(id, a[1], a[2], a[3], a[4])
    \/ \E id \in {2, 9}, p \in {1, 2, 9} : VincularProtocolo(id, p)
    \/ \E id \in {2, 9}, p \in {1, 2, 9} : DesvincularProtocolo(id, p)
    \/ Teardown

SpecJerarquiaSvc == InitJerarquiaSvc /\ [][NextJerarquiaSvc]_vars

(***************************************************************************)
(* C21: the levels create_jerarquia and update_jerarquia accept.           *)
(***************************************************************************)
\* C21: create_jerarquia and update_jerarquia accept as nivel exactly the
\* integers 0..100: a call whose nivel is an int in 0..100 does not fail on it
\* (here: a call that is valid but for its nivel returns), any other nivel
\* raises ValueError, and every persisted Jerarquia has nivel_acceso in 0..100.
C21_LevelRange ==
    /\ [][(/\ last'.op = "create_jerarquia"
           /\ last'.nombre = TxtAce
           /\ get_jerarquia_by_nombre(TxtAce) = None)
             => (last'.ret = "None" <=> last'.nivel \in 0..100)]_vars
    /\ [][(/\ last'.op = "update_jerarquia"
           /\ last'.id_jerarquia \in DOMAIN jerarquias
           /\ last'.nombre.type = "NoneType"
           /\ last'.color.type = "NoneType"
           /\ last'.nivel.type = "int")
             => (last'.ret = "None" <=> last'.nivel.value \in 0..100)]_vars
    /\ [](\A j \in DOMAIN jerarquias : jerarquias[j].nivel_acceso \in 0..100)

\* C21, failing case: update_jerarquia(1, nivel=0), the level Jerarquia 1 has,
\* raises ValueError.
C21_Witness ==
    /\ last.op = "update_jerarquia"
    /\ last.id_jerarquia = 1
    /\ last.nombre.type = "NoneType"
    /\ last.color.type = "NoneType"
    /\ last.nivel.type = "int"
    /\ last.nivel.value = 0
    /\ last.ret = "ValueError"
    /\ jerarquias[1].nivel_acceso = 0

\* C21, failing case of create_jerarquia: nivel 0 with a free name raises
\* ValueError and nothing is added.
C21_CreateWitness ==
    /\ last.op = "create_jerarquia"
    /\ last.nombre = TxtAce
    /\ last.nivel = 0
    /\ last.ret = "ValueError"
    /\ get_jerarquia_by_nombre(TxtAce) = None

\* What holds of C21: the accepted integers are 1..100, and the persisted
\* levels stay within 0..100 (0 only on rows that were not created or
\* updated through the services).
C21_Holds ==
    /\ [][(/\ last'.op = "create_jerarquia"
           /\ last'.nombre = TxtAce
           /\ get_jerarquia_by_nombre(TxtAce) = None)
             => (last'.ret = "None" <=> last'.nivel \in 1..100)]_vars
    /\ [][(/\ last'.op = "update_jerarquia"
           /\ last'.id_jerarquia \in DOMAIN jerarquias
           /\ last'.nombre.type = "NoneType"
           /\ last'.color.type = "NoneType"
           /\ last'.nivel.type = "int")
             => (last'.ret = "None" <=> last'.nivel.value \in 1..100)]_vars
    /\ [](\A j \in DOMAIN jerarquias : jerarquias[j].nivel_acceso \in 0..100)
    /\ [][\A j \in DOMAIN jerarquias' :
             (j \notin DOMAIN jerarquias \/ jerarquias'[j].nivel_acceso /= jerarquias[j].nivel_acceso)
                => jerarquias'[j].nivel_acceso \in 1..100]_vars

(***************************************************************************)
(* C30: vincular_protocolo and desvincular_protocolo on the link set.      *)
(***************************************************************************)
LinkCall(op) ==
    /\ last'.op = op
    /\ last'.id_jerarquia \in DOMAIN jerarquias
    /\ last'.id_protocolo \in DOMAIN protocolos

OtherLinksUnchanged ==
    \A k \in DOMAIN jerarquias \ {last'.id_jerarquia} :
        jerarquias'[k].protocolos = jerarquias[k].protocolos

NoDuplicateLinks ==
    \A j \in DOMAIN jerarquias :
        Cardinality(Range(jerarquias[j].protocolos)) = Len(jerarquias[j].protocolos)

\* C30: vincular_protocolo of a linked protocolo and desvincular_protocolo of
\* an unlinked one leave jerarquia.protocolos unchanged; vincular_protocolo of
\* an unlinked protocolo adds it once and the desvincular_protocolo that
\* follows restores the links as they were; no protocolo is linked twice; the
\* links of every other jerarquia are unchanged by both.
C30_LinkAlgebra ==
    /\ [][LinkCall("vincular_protocolo")
             => /\ last'.ret = "None"
                /\ OtherLinksUnchanged
                /\ IF last'.id_protocolo \in Range(last'.before)
                   THEN jerarquias'[last'.id_jerarquia].protocolos = last'.before
                   ELSE jerarquias'[last'.id_jerarquia].protocolos
                           = Append(last'.before, last'.id_protocolo)]_vars
    /\ [][LinkCall("desvincular_protocolo")
             => /\ last'.ret = "None"
                /\ OtherLinksUnchanged
                /\ Range(jerarquias'[last'.id_jerarquia].protocolos)
                      = Range(last'.before) \ {last'.id_protocolo}
                /\ last'.id_protocolo \notin Range(last'.before)
                      => jerarquias'[last'.id_jerarquia].protocolos = last'.before]_vars
    /\ [][(/\ LinkCall("desvincular_protocolo")
           /\ last.op = "vincular_protocolo"
           /\ last.ret = "None"
           /\ last.id_jerarquia = last'.id_jerarquia
           /\ last.id_protocolo = last'.id_protocolo
           /\ last.id_protocolo \notin Range(last.before))
             => jerarquias'[last'.id_jerarquia].protocolos = last.before]_vars
    /\ []NoDuplicateLinks

\* C30: protocolo 1 was unlinked from Jerarquia 2, which held protocolos 2 and
\* 1, while Jerarquia 1 keeps its own link.
C30_Witness ==
    /\ last.op = "desvincular_protocolo"
    /\ last.ret = "None"
    /\ last.id_jerarquia = 2
    /\ last.id_protocolo = 1
    /\ last.before = <<2, 1>>
    /\ jerarquias[2].protocolos = <<2>>
    /\ jerarquias[1].protocolos = <<1>>

\* C30: vincular_protocolo of a protocolo that is already linked returned and
\* the links are as before.
C30_RelinkWitness ==
    /\ last.op = "vincular_protocolo"
    /\ last.ret = "None"
    /\ last.id_jerarquia = 2
    /\ last.id_protocolo = 1
    /\ last.before = <<1, 2>>
    /\ jerarquias[2].protocolos = <<1, 2>>

(***************************************************************************)
(* Avatar uploads: the create and update handlers of usuarios saving files  *)
(* into static/uploads/avatars while time passes.                          *)
(***************************************************************************)
MaxAvatars == 2

AvatarFiles == {<<"a", " ", "b">>, <<"a", "_", "b">>, <<"1", "_", "a">>, <<"a">>}

InitAvatar == InitCommon

NextAvatar ==
    \/ \E email \in {MailRoot, <<"1", "@", "x">>} : Login("POST", email, <<"p", "w">>, FALSE)
    \/ Logout
    \/ Tick
    \/ /\ Cardinality(DOMAIN avatars) < MaxAvatars
       /\ \E email \in {MailAce, MailBad}, avatar_file \in AvatarFiles \cup {Txt0} :
             UsuariosCreate(TxtAce, email, <<"p", "w">>, <<"1">>, NoneTxt, avatar_file)
    \/ /\ Cardinality(DOMAIN avatars) < MaxAvatars
       /\ \E id_usuario \in {1, 9}, avatar_file \in AvatarFiles \cup {NoneTxt} :
             UsuariosUpdate(id_usuario, NoneTxt, NoneTxt, NoneTxt, NoneTxt, NoneTxt, avatar_file)

SpecAvatar == InitAvatar /\ [][NextAvatar]_vars

\* the request of the step saved an uploaded file
UploadStep == last'.op \in {"usuario.create", "usuario.update"} /\ last'.saved /= NoneTxt

\* C22: an avatar upload is never saved to the path of an earlier upload: no
\* file already in uploads/avatars is overwritten.
C22_UniquePaths ==
    [][UploadStep => /\ last'.saved \notin DOMAIN avatars
                     /\ \A path \in DOMAIN avatars : avatars'[path] = avatars[path]]_vars

\* C22, failing case: within one second the file "a_b" uploaded to
\* /usuarios/create replaced the file "a b" uploaded before it by another user,
\* whose foto_usuario names the same path.
C22_Witness ==
    /\ last.op = "usuario.create"
    /\ last.saved \in DOMAIN avatars
    /\ avatars[last.saved].filename = <<"a", "_", "b">>
    /\ avatars[last.saved].by /= 4
    /\ \E u \in DOMAIN usuarios : /\ usuarios[u].foto_usuario = last.saved
                                  /\ usuarios[u].alias_usuario = TxtAce
    /\ Cardinality(DOMAIN avatars) = 1
    /\ last.response = "SQLAlchemyError"

\* C22, failing case across the two handlers: at second 1 an upload of "1_a" to
\* /usuarios/create and an upload of "a" to /usuarios/update/1 are both saved
\* as avatar_1_1_a.
C22_CrossWitness ==
    /\ last.op = "usuario.update"
    /\ last.id_usuario = 1
    /\ now = 1
    /\ last.saved = AvatarPrefix \o <<"1", "_", "1", "_", "a">>
    /\ avatars[last.saved].filename = <<"a">>
    /\ Cardinality(DOMAIN avatars) = 1

\* What holds of C22: a path is reused only by an upload of the same second,
\* or by an upload to /usuarios/update/<id> after an upload to /usuarios/create
\* made at second <id>.
C22_Holds ==
    [][(UploadStep /\ last'.saved \in DOMAIN avatars)
          => \/ avatars[last'.saved].at = now
             \/ /\ last'.op = "usuario.update"
                /\ avatars[last'.saved].at = last'.id_usuario]_vars

(***************************************************************************)
(* The site: requests to the routes of several blueprints by anonymous     *)
(* visitors, a PARTICIPANTE user and the ADMIN user.                       *)
(***************************************************************************)
SiteJerarquiaForm ==
    [nombre_de_jerarquia |-> TxtAce, subtitulo_de_jerarquia |-> <<"s">>,
     descripcion_de_jerarquia |-> <<"d">>, nivel_jerarquia |-> <<"5", "0">>,
     color_jerarquia |-> ColorRed, protocolos_ids |-> <<<<"1">>>>]

InitSite == InitJerarquia

NextSite ==
    \/ \E method \in {"GET", "POST"}, email \in {<<"1", "@", "x">>, MailRoot},
          password \in LoginPasswords : Login(method, email, password, FALSE)
    \/ Logout
    \/ \E id \in {1, 9} : ProtocoloDelete(id)
    \/ \E id_jerarquia \in {<<"4">>, <<"x">>} :
          UsuariosCreate(TxtAce, MailAce, <<"p", "w">>, id_jerarquia, NoneTxt, NoneTxt)
    \/ \E id_usuario \in {1, 2, 9}, id_jerarquia \in {<<"4">>, <<"x">>, NoneTxt} :
          UsuariosUpdate(id_usuario, NoneTxt, NoneTxt, NoneTxt, id_jerarquia, NoneTxt, NoneTxt)
    \/ \E id_usuario \in {3, 9} : UsuariosDelete(id_usuario)
    \/ JerarquiasCreate(SiteJerarquiaForm)
    \/ EquiposAddMember(1, <<"2">>)

SpecSite == InitSite /\ [][NextSite]_vars

\* the endpoints of the requests above, none of them in "auth." or "static"
GatedOps == {"protocolo.delete", "usuario.create", "usuario.update", "usuario.delete",
             "jerarquia.create", "equipo.add_member"}

\* C23: a request by an unauthenticated requester to an endpoint outside
\* "auth." and "static" is answered by the redirect to the login page with
\* next, and neither the persisted rows, the uploaded files nor the session
\* change: no handler and no service ran.
C23_LoginGate ==
    [][(last'.op \in GatedOps /\ ~is_authenticated)
          => /\ last'.response = "redirect_login_next"
             /\ UNCHANGED <<current_user, usuarios, jerarquias, protocolos, equipos, torneos,
                            pend, seq, avatars>>]_vars

\* C23: an anonymous GET /usuarios/delete/3 was redirected to the login page
\* and Usuario 3 exists.
C23_Witness ==
    /\ last.op = "usuario.delete"
    /\ last.id_usuario = 3
    /\ ~is_authenticated
    /\ last.response = "redirect_login_next"
    /\ 3 \in DOMAIN usuarios

(***************************************************************************)
(* C26: what a PARTICIPANTE-level user can do to usuarios.                 *)
(***************************************************************************)
\* the requester is logged in with a raw level below every moderator tier
ParticipanteRequest ==
    /\ is_authenticated
    /\ user_level < MOD_TACTICO
    /\ last'.op \in {"usuario.create", "usuario.update", "usuario.delete"}

\* C26: no request of a PARTICIPANTE-level user changes the id_jerarquia of a
\* Usuario, adds a Usuario or deletes one.
C26_ParticipanteCannotEscalate ==
    [][ParticipanteRequest
          => /\ DOMAIN usuarios' = DOMAIN usuarios
             /\ \A u \in DOMAIN usuarios :
                   usuarios'[u].id_jerarquia = usuarios[u].id_jerarquia]_vars

\* C26, failing case: user 1, of the PARTICIPANTE jerarquia, posted
\* /usuarios/update/2 with id_jerarquia 4 and Usuario 2 is now ADMIN.
C26_Witness ==
    /\ last.op = "usuario.update"
    /\ current_user = 1
    /\ usuarios[1].id_jerarquia = 1
    /\ jerarquias[1].nivel_acceso = PARTICIPANTE
    /\ last.id_usuario = 2
    /\ last.form.id_jerarquia = <<"4">>
    /\ last.response = "redirect_usuario_index"
    /\ usuarios[2].id_jerarquia = 4
    /\ jerarquias[4].nivel_acceso = ADMIN

\* C26, failing case: user 1 made themselves ADMIN.
C26_SelfWitness ==
    /\ last.op = "usuario.update"
    /\ current_user = 1
    /\ last.id_usuario = 1
    /\ last.response = "redirect_usuario_index"
    /\ usuarios[1].id_jerarquia = 4

\* C26, failing case: user 1 deleted Usuario 3.
C26_DeleteWitness ==
    /\ last.op = "usuario.delete"
    /\ current_user = 1
    /\ usuarios[1].id_jerarquia = 1
    /\ last.id_usuario = 3
    /\ last.response = "redirect_usuario_index"
    /\ 3 \notin DOMAIN usuarios

\* C26, failing case: user 1 created a Usuario of the ADMIN jerarquia.
C26_CreateWitness ==
    /\ last.op = "usuario.create"
    /\ current_user = 1
    /\ usuarios[1].id_jerarquia = 1
    /\ last.response = "redirect_usuario_index"
    /\ \E u \in DOMAIN usuarios : usuarios[u].alias_usuario = TxtAce /\ usuarios[u].id_jerarquia = 4

\* What holds of C26: the routes guarded by permission_required do nothing for
\* a PARTICIPANTE-level user.
C26_Holds ==
    [][(/\ is_authenticated
        /\ user_level < MOD_TACTICO
        /\ last'.op \in {"protocolo.delete", "jerarquia.create"})
          => /\ last'.response = "redirect_index"
             /\ UNCHANGED <<usuarios, jerarquias, protocolos>>]_vars

(***************************************************************************)
(* C24: when the login handler logs a requester in.                        *)
(***************************************************************************)
\* a Usuario has the submitted email and the submitted password is the one
\* its stored hash was made from
CredentialsMatch(email, password) ==
    \E u \in DOMAIN usuarios :
        /\ usuarios[u].email_usuario = email
        /\ usuarios[u].password_usuario = generate_password_hash(password)

C24_LoggedInWitness ==
    /\ last.op = "auth.login"
    /\ last.logged_in
    /\ current_user = 4
    /\ usuarios[4].email_usuario = MailRoot



\* ---------------------------------------------------------------------------
\* Roster size against capacity
\* ---------------------------------------------------------------------------

\* C25: after any sequence of create_equipo, update_equipo, add_member_to_equipo
\* and remove_member_from_equipo calls, every persisted team has at most
\* maximo_miembros members
C25_CapacityInvariant ==
    \A e \in DOMAIN equipos : miembros_count(equipos[e]) <= equipos[e].maximo_miembros

\* update_equipo has lowered the capacity of a team below its roster
C25_Witness ==
    /\ last.op = "update_equipo"
    /\ last.ret = "Equipo"
    /\ \E e \in DOMAIN equipos : miembros_count(equipos[e]) > equipos[e].maximo_miembros

\* what the code does keep: a call that does not lower maximo_miembros never
\* takes a team that respects its capacity over it
C25_Holds ==
    [][\A e \in DOMAIN equipos' :
          (/\ e \in DOMAIN equipos => /\ miembros_count(equipos[e]) <= equipos[e].maximo_miembros
                                       /\ equipos'[e].maximo_miembros >= equipos[e].maximo_miembros)
          => miembros_count(equipos'[e]) <= equipos'[e].maximo_miembros]_vars


\* ---------------------------------------------------------------------------
\* Following redirects
\* ---------------------------------------------------------------------------

\* cap on the number of redirects followed for one request; the longest chains
\* of the code have two (login with next = auth.logout: login -> logout ->
\* login page)
MaxHops == 3

\* endpoints requested: the auth views, the index views the login handler
\* redirects to, two decorated views and an undecorated one
BrowseEndpoints ==
    {"auth.login", "auth.logout", "index.index", "equipo.index", "torneo.index",
     "protocolo.create", "jerarquia.create", "usuario.index"}

\* views wrapped by permission_required, and their allow-lists
Decorated(endpoint) == endpoint \in {"protocolo.create", "jerarquia.create"}

AllowedLevels(endpoint) ==
    IF endpoint = "protocolo.create" THEN ProfilesROOT ELSE ProfilesSISTEMA

\* the endpoint a redirect response names
RedirectTarget(response, next) ==
    CASE response \in {"redirect_login", "redirect_login_next"} -> "auth.login"
      [] response = "redirect_index" -> "index.index"
      [] response = "redirect_equipo_index" -> "equipo.index"
      [] response = "redirect_torneo_index" -> "torneo.index"
      [] response = "redirect_next" -> next
      [] OTHER -> "none"

\* a response: who is logged in after it, what it is, and for a redirect the
\* endpoint it names and the next argument of that URL
BrowseResponse(user, response, next, carried) ==
    [user |-> user, response |-> response, target |-> RedirectTarget(response, next),
     next |-> carried]

\* auth_routes.login, with the next argument of the request URL
login(method, email, password, next) ==
    LET user == get_usuario_by_email(email) IN
    IF is_authenticated THEN BrowseResponse(current_user, "redirect_index", "none", "none")
    ELSE IF method = "GET" THEN BrowseResponse(current_user, "render_login", "none", "none")
    ELSE IF user = None \/ ~check_password_hash(usuarios[user].password_usuario, password)
    THEN BrowseResponse(current_user, "redirect_login", "none", "none")
    ELSE BrowseResponse(user, LoginRedirect(user, next /= "none"), next, "none")

\* auth_routes.logout behind login_required: an anonymous requester is sent
\* to login_view with next set to the URL asked for
logout ==
    IF ~is_authenticated
    THEN BrowseResponse(current_user, "redirect_login_next", "none", "auth.logout")
    ELSE BrowseResponse(Anonymous, "redirect_login", "none", "none")

\* one request through before_request, the decorator and the view; the views
\* other than login and logout answer a GET with their page
Dispatch(method, endpoint, email, password, next) ==
    IF require_login(endpoint) /= "pass"
    THEN BrowseResponse(current_user, "redirect_login_next", "none", endpoint)
    ELSE IF endpoint = "auth.login" THEN login(method, email, password, next)
    ELSE IF endpoint = "auth.logout" THEN logout
    ELSE IF Decorated(endpoint) /\ permission_required(AllowedLevels(endpoint)) /= "run"
    THEN BrowseResponse(current_user, permission_required(AllowedLevels(endpoint)),
                        "none", "none")
    ELSE BrowseResponse(current_user, "render", "none", "none")

IsRedirect(response) == RedirectTarget(response, "auth.login") /= "none"

Redirected == last.op = "request" /\ IsRedirect(last.response)

Rendered == last.op = "request" /\ ~IsRedirect(last.response)

BrowseCall(origin, method, endpoint, next, hops, r) ==
    /\ current_user' = r.user
    /\ last' = [op |-> "request", origin |-> origin, method |-> method,
                endpoint |-> endpoint, asked |-> next,
                response |-> r.response, target |-> r.target, next |-> r.next,
                hops |-> hops]
    /\ UNCHANGED <<usuarios, jerarquias, protocolos, equipos, equipo, torneos, pend, seq>>
    /\ UNCHANGED <<avatars, now, config>>

\* a request typed or clicked by the requester, once the previous one has
\* been answered with a page
Request(method, endpoint, email, password, next) ==
    /\ ~Redirected
    /\ method = "POST" => endpoint = "auth.login"
    /\ BrowseCall([method |-> method, endpoint |-> endpoint, user |-> current_user],
                  method, endpoint, next, 0,
                  Dispatch(method, endpoint, email, password, next))

\* the browser follows a redirect with a GET of the URL it names
Follow ==
    /\ Redirected
    /\ last.hops < MaxHops
    /\ BrowseCall(last.origin, "GET", last.target, last.next, last.hops + 1,
                  Dispatch("GET", last.target, NoneTxt, NoneTxt, last.next))

InitBrowse == InitJerarquia

NextBrowse ==
    \/ \E method \in {"GET", "POST"}, endpoint \in BrowseEndpoints,
          email \in {<<"1", "@", "x">>, <<"2", "@", "x">>, <<"3", "@", "x">>, MailRoot, MailNeo},
          password \in LoginPasswords, next \in BrowseEndpoints \cup {"none"} :
          Request(method, endpoint, email, password, next)
    \/ Follow

\* a browser always follows the redirect it is given
SpecBrowse == InitBrowse /\ [][NextBrowse]_vars /\ WF_vars(Follow)

\* C27: from any request by any requester, following the redirects of
\* require_login, permission_required and the login handler reaches a rendered
\* page after a bounded number of steps; there is no redirect cycle
C27_NoRedirectCycle ==
    /\ [](last.op = "request" => last.hops < MaxHops)
    /\ (Redirected ~> Rendered)

\* a level 0 user who logged in with next = protocolo.create was sent there,
\* then to the index, which rendered
C27_Witness ==
    /\ Rendered
    /\ last.origin = [method |-> "POST", endpoint |-> "auth.login", user |-> Anonymous]
    /\ last.endpoint = "index.index"
    /\ last.hops = 2
    /\ is_authenticated
    /\ user_level = PARTICIPANTE

\* an anonymous request for a gated view ended on the login page
C27_AnonymousWitness ==
    /\ Rendered
    /\ last.origin = [method |-> "GET", endpoint |-> "protocolo.create", user |-> Anonymous]
    /\ last.response = "render_login"
    /\ last.asked = "protocolo.create"
    /\ last.hops = 1

\* an authenticated visit to the login page ended on the index page
C27_LoginVisitWitness ==
    /\ Rendered
    /\ last.origin.endpoint = "auth.login"
    /\ last.origin.user /= Anonymous
    /\ last.endpoint = "index.index"
    /\ last.hops = 1
    /\ last.response = "render"
    /\ is_authenticated


\* a level 0 user asking for a decorated view ended on the index page
C27_DeniedWitness ==
    /\ Rendered
    /\ last.origin = [method |-> "GET", endpoint |-> "jerarquia.create", user |-> 1]
    /\ last.endpoint = "index.index"
    /\ last.hops = 1


\* ---------------------------------------------------------------------------
\* The grouped menu of the shipped configuration, for every level
\* ---------------------------------------------------------------------------

\* every nivel_acceso the table accepts
MenuLevels == 0..100

MenuPaths == {<<"/">>, <<"/", "t", "o", "r", "n", "e", "o", "s">>, <<"/", "n", "a", "d", "a">>}

\* user 1 has any of the levels
InitMenu ==
    /\ current_user = Anonymous
    /\ usuarios = SeedUsuarios
    /\ \E l \in MenuLevels : jerarquias = [SeedJerarquias EXCEPT ![1].nivel_acceso = l]
    /\ protocolos = EmptyMap
    /\ equipos = EmptyMap
    /\ equipo = NoEquipo
    /\ torneos = EmptyMap
    /\ pend = EmptyMap
    /\ seq = SeedSeq
    /\ last = [op |-> "init"]
    /\ avatars = EmptyMap
    /\ now = 0
    /\ config = EmptyMap

NextMenu ==
    \/ Login("POST", <<"1", "@", "x">>, <<"p", "w">>, FALSE)
    \/ Logout
    \/ \E path \in MenuPaths : GetDashboardData(path)

SpecMenu == InitMenu /\ [][NextMenu]_vars

\* the section titles of config.MENU_ITEMS in the order the claim gives
SectionOrder ==
    <<"OPERATIONS_COMMAND", "ARENA_INFRASTRUCTURE", "SYSTEM_KERNEL", "DATA_TELEMETRY">>

SectionPos(title) == CHOOSE k \in 1..Len(SectionOrder) : SectionOrder[k] = title

\* the sections with an item the level may see
VisibleSections(level) ==
    {MENU_ITEMS[k].title_section : k \in {j \in 1..Len(MENU_ITEMS) : level >= MENU_ITEMS[j].min_level}}

\* C29: for the shipped MENU_ITEMS and every user level in 0..100 the grouped
\* menu of get_dashboard_data has each section title at most once, no empty
\* section, and the sections with a visible item in the order
\* OPERATIONS_COMMAND, ARENA_INFRASTRUCTURE, SYSTEM_KERNEL, DATA_TELEMETRY
C29_GroupedMenu ==
    (DashboardAnswered /\ is_authenticated) =>
        LET menu == last.context.menu_data IN
        /\ \A i, j \in 1..Len(menu) : i /= j => menu[i].title /= menu[j].title
        /\ \A i \in 1..Len(menu) : menu[i].section_items /= <<>>
        /\ {menu[i].title : i \in 1..Len(menu)} = VisibleSections(user_level)
        /\ \A i, j \in 1..Len(menu) :
              i < j => SectionPos(menu[i].title) < SectionPos(menu[j].title)

\* a level 20 user gets three sections, the first with its two level 5 items
C29_Witness ==
    /\ DashboardAnswered
    /\ is_authenticated
    /\ user_level = 20
    /\ Len(last.context.menu_data) = 3
    /\ last.context.menu_data[1].title = "OPERATIONS_COMMAND"
    /\ Len(last.context.menu_data[1].section_items) = 2
    /\ last.context.menu_data[3].title = "DATA_TELEMETRY"

\* a level 3 user gets the one section open to everybody
C29_LowWitness ==
    /\ DashboardAnswered
    /\ is_authenticated
    /\ user_level = 3
    /\ Len(last.context.menu_data) = 1
    /\ last.context.menu_data[1].title = "ARENA_INFRASTRUCTURE"


\* ---------------------------------------------------------------------------
\* The dicts of config.MENU_ITEMS and the copies a call works on
\* ---------------------------------------------------------------------------
\* config maps the index of a dict of config.MENU_ITEMS to the "active" key a
\* call has left on it; as shipped no dict has the key.  An item carries in
\* ref the index of the config dict it is, or None when it is a dict of its
\* own.

\* dict i of config.MENU_ITEMS as a call finds it
SharedItem(i) ==
    [ItemCopy(MENU_ITEMS[i]) EXCEPT !.active = IF i \in DOMAIN config THEN config[i] ELSE @]
    @@ [ref |-> i]

\* the list is built from the dicts of the configuration themselves
copy_same(item) == item

\* dict.copy(): a new dict with the keys and values of the item
copy(item) == [item EXCEPT !.ref = None]

\* the positions in config.MENU_ITEMS of the items the level may see
VisibleIndexes(level) ==
    SelectSeq([i \in 1..Len(MENU_ITEMS) |-> i], LAMBDA i : level >= MENU_ITEMS[i].min_level)

\* the list comprehension of _get_filtered_menu, on dicts
FilteredObjects(level) ==
    [k \in 1..Len(VisibleIndexes(level)) |-> copy(SharedItem(VisibleIndexes(level)[k]))]

\* the keys and values of a dict, whichever dict it is
Deref(item) == [k \in DOMAIN item \ {"ref"} |-> item[k]]

DerefMenu(menu) ==
    [s \in 1..Len(menu) |->
        [title |-> menu[s].title,
         section_items |-> [k \in 1..Len(menu[s].section_items) |->
                               Deref(menu[s].section_items[k])]]]

\* the configuration after item["active"] has been assigned on the items of
\* the menu: an assignment to a dict of the configuration stays in it
ConfigAfter(menu) ==
    LET flat == Flatten(menu)
        written == {k \in 1..Len(flat) : flat[k].ref /= None /\ flat[k].active /= "unset"}
    IN [i \in DOMAIN config \cup {flat[k].ref : k \in written} |->
           IF \E k \in written : flat[k].ref = i
           THEN flat[CHOOSE k \in written : flat[k].ref = i].active
           ELSE config[i]]

\* get_dashboard_data on dicts: [context, config], the context returned and
\* the configuration the call leaves
get_dashboard_data_objects(current_path) ==
    IF current_path = NoneTxt \/ ~is_authenticated
    THEN [context |-> get_dashboard_data(current_path), config |-> config]
    ELSE LET norm_path == _normalize_path(IF current_path = <<>> THEN <<"/">>
                                          ELSE current_path)
             grouped_menu_data == _group_menu_by_section(FilteredObjects(user_level))
             page == _mark_active_menu_and_get_page_info(grouped_menu_data, norm_path)
         IN [context |-> [exc |-> NoneStr,
                          menu_data |-> DerefMenu(page.menu),
                          alert_finish |-> _get_active_alert(norm_path),
                          page_data |-> page.page_data,
                          page_title |-> page.page_title,
                          access_value |-> _calculate_access_level(CurrentUser),
                          min_access_level |-> DEFAULT_MIN_ACCESS_LEVEL],
             config |-> ConfigAfter(page.menu)]

GetDashboardDataObjects(current_path) ==
    LET r == get_dashboard_data_objects(current_path) IN
    /\ config' = r.config
    /\ last' = [op |-> "get_dashboard_data", path |-> current_path, context |-> r.context]
    /\ UNCHANGED <<current_user, usuarios, jerarquias, protocolos, equipos, equipo,
                   torneos, pend, seq, avatars, now>>

InitConfig == InitDashboard

NextConfig ==
    \/ \E method \in {"GET", "POST"}, email \in {<<"1", "@", "x">>, MailRoot, MailNeo},
          password \in LoginPasswords : Login(method, email, password, FALSE)
    \/ Logout
    \/ \E path \in RequestPaths : GetDashboardDataObjects(path)

SpecConfig == InitConfig /\ [][NextConfig]_vars

\* C28: get_dashboard_data never modifies config.MENU_ITEMS, ALERTS_DATA or
\* METRIC_CARDS: the active flags go to per-call copies, so the configuration
\* is as shipped after any sequence of calls and the result of a call is what
\* the shipped configuration gives, whatever the earlier calls were
C28_ConfigUntouched ==
    [][last'.op = "get_dashboard_data" =>
          /\ config' = config
          /\ config' = EmptyMap
          /\ last'.context = get_dashboard_data(last'.path)]_vars

\* a call has marked an item of the menu active and the configuration has no
\* active key
C28_Witness ==
    /\ DashboardAnswered
    /\ is_authenticated
    /\ \E s \in 1..Len(last.context.menu_data) :
          \E k \in 1..Len(last.context.menu_data[s].section_items) :
             last.context.menu_data[s].section_items[k].active = "True"
    /\ config = EmptyMap

====
